---- MODULE Spec2Model ----
(***************************************************************************)
(* Flight-distribution adapter of the-book-platform.                       *)
(*                                                                         *)
(*   - the gateway's Book handler (services/gateway/routers/flights.py)    *)
(*     with the provider policy it reads                                   *)
(*     (services/gateway/permissions_store.py) and the upstream AirBook    *)
(*     call (services/flights/ota/services/wings_client.py);               *)
(*   - the portal's seat estimators (apps/web_portal/app.py);              *)
(*   - the gateway's Search handler with the normalizer                   *)
(*     (services/flights/ota/services/normalize.py), the round-trip       *)
(*     reconciler and the airline filter;                                  *)
(*   - the policy queries (_ota_policy, GET /api/permissions/status);     *)
(*   - the portal's ticketing with payment (/issue-ticket) and its        *)
(*     pending workflow (/pending/{id}/complete).                         *)
(*                                                                         *)
(* Python values are modelled by records of one shape per kind, so that    *)
(* an absent key, None, "" and a value of the wrong type are told apart    *)
(* only where the code tells them apart.                                   *)
(***************************************************************************)
EXTENDS Integers, Sequences, FiniteSets, TLC

VARIABLES
    \* ---- gateway process state -------------------------------------------
    configured,     \* WINGS credentials present in the environment
    perm,           \* the "OTA" entry of permissions.json
    now,            \* the clock, local to the schedule's timezone
    \* ---- one Book request --------------------------------------------------
    bpc,            \* "idle" | "calling" (awaiting client.air_book) | "done"
    breq,           \* the BookingRequest being served
    bpol,           \* the policy snapshot _ota_policy() returned to book()
    airbook_xml,    \* the request payload built by _build_airbook_xml
    airBookCalls,   \* number of POSTs to the upstream /AirBook endpoint
    upstream,       \* what the upstream did with the POST (history)
    outcome,        \* the response of book()
    \* ---- one seat estimation ----------------------------------------------
    epc,            \* "idle" | "probing" | "done"
    efn,            \* which estimator runs: "keys" | "results" | "none"
    payload,        \* the search payload's pax block
    allowed_providers, \* None (unrestricted) or a list of provider ids
    keys_out,       \* requested keys (estimator for keys)
    keys_in,
    outbound,       \* result lists (estimator for results), by flight key
    inbound,
    seats_out,      \* key -> seats, None while unresolved
    seats_in,
    pax_total,      \* the loop variable of the probe loop
    probes,         \* number of probe searches POSTed to /api/availability
    probeAdults,    \* adults of the last probe payload
    probeFailed,    \* history: a probe search raised
    firstAbsentOut, \* history: first pax_total at which a key was absent
    firstAbsentIn,
    eret,           \* what the estimator returned / wrote
    \* ---- one Search request ------------------------------------------------
    spc,            \* "idle" | "outbound" | "return" | "combined" (awaiting) | "done"
    sreq,           \* the AvailabilityRequest being served
    spol,           \* the policy snapshot _ota_policy() returned to availability()
    searchCalls,    \* the payloads POSTed to /AirLowFareSearch, in order
    resp_out,       \* what the upstream answered to each search (history)
    resp_ret,
    resp_rt,
    results_out,    \* the handler's lists (results, results_return) before the filter
    results_return,
    rt_map,         \* the round-trip price map
    sresp,          \* the response of availability()
    \* ---- policy queries -----------------------------------------------------
    ota_pol,        \* what a call of _ota_policy() returned
    status_out,     \* the "OTA" entry of GET /api/permissions/status
    \* ---- the portal's ticketing and pending workflow ------------------------
    credit,         \* the billing user's credit balance (users.json)
    cash,           \* the billing user's cash balance
    pending,        \* pending.json: the pending items, newest first
    transactions,   \* transactions.json: the transactions, newest first
    ledger,         \* history: every change made to a balance, in order
    booked,         \* history: the total of each request the backend answered as Pending
    portal_req,     \* history: the portal request handled last
    portal_resp,    \* the response to it
    portal_n        \* number of portal requests handled

bookVars == <<configured, perm, now, bpc, breq, bpol, airbook_xml, airBookCalls, upstream, outcome>>
seatVars == <<epc, efn, payload, allowed_providers, keys_out, keys_in, outbound, inbound,
              seats_out, seats_in, pax_total, probes, probeAdults,
              probeFailed, firstAbsentOut, firstAbsentIn, eret>>
searchVars == <<spc, sreq, spol, searchCalls, resp_out, resp_ret, resp_rt,
                results_out, results_return, rt_map, sresp>>
policyVars == <<ota_pol, status_out>>
portalVars ==
    <<credit, cash, pending, transactions, ledger, booked, portal_req, portal_resp, portal_n>>
otherVars == <<searchVars, policyVars, portalVars>>
vars == <<bookVars, seatVars, otherVars>>

\* Python's None where a string is expected.
None == "<None>"

\* a or b, on strings: the first that is truthy.
Or2(a, b) == IF a /= "" /\ a /= None THEN a ELSE b

(***************************************************************************)
(* Provider policy: permissions_store.py                                   *)
(***************************************************************************)

\* "HH:MM" is held as [hh, mm]; anything time(int(hh), int(mm)) rejects, and
\* the empty string, parse to None (-1).  The result is seconds of the day.
NoTime == -1
_parse_hhmm(v) ==
    IF v.hh \in 0..23 /\ v.mm \in 0..59 THEN v.hh * 3600 + v.mm * 60 ELSE NoTime

RECURSIVE RuleScan(_, _, _)
\* Mutant: an overnight rule is tested like a same-day rule.
RuleScanOvernightAsSameDay(rules, i, at) ==
    IF i > Len(rules) THEN FALSE
    ELSE LET r  == rules[i]
             st == _parse_hhmm(r.start)
             en == _parse_hhmm(r.end)
         IN  IF at.wd \notin r.days THEN RuleScan(rules, i + 1, at)
             ELSE IF st = NoTime \/ en = NoTime THEN RuleScan(rules, i + 1, at)
             ELSE IF st <= at.t /\ at.t <= en THEN TRUE
             ELSE RuleScan(rules, i + 1, at)

RuleScan(rules, i, at) ==
    IF i > Len(rules) THEN FALSE
    ELSE LET r  == rules[i]
             st == _parse_hhmm(r.start)
             en == _parse_hhmm(r.end)
         IN  IF at.wd \notin r.days THEN RuleScan(rules, i + 1, at)
             ELSE IF st = NoTime \/ en = NoTime THEN RuleScan(rules, i + 1, at)
             ELSE IF st <= en /\ st <= at.t /\ at.t <= en THEN TRUE
             ELSE IF st > en /\ (at.t >= st \/ at.t <= en) THEN TRUE
             ELSE RuleScan(rules, i + 1, at)

_ticketing_schedule_allows(schedule, at) ==
    IF ~schedule.enabled THEN TRUE
    ELSE IF schedule.rules = <<>> THEN FALSE
    ELSE RuleScan(schedule.rules, 1, at)

\* ticketing_mode after (p.get("ticketing_mode") or "full").strip().lower()
\* (stored modes are held stripped and lower-cased; "" stands for a missing
\* or empty value)
TicketingModeNorm(m) == IF m = "" THEN "full" ELSE m

\* str.strip() and str.upper() of the strings the model draws from
Strip(s) ==
    CASE s = " ia " -> "ia"
      [] s = " " -> ""
      [] s = " T1 " -> "T1"
      [] s = " 101 " -> "101"
      [] OTHER -> s
Upper(s) ==
    CASE s = "ia" -> "IA"
      [] s = " ia " -> " IA "
      [] s = "bgw" -> "BGW"
      [] s = "dxb" -> "DXB"
      [] s = "t1" -> "T1"
      [] OTHER -> s

\* [str(x).strip().upper() for x in blocked_airlines if str(x).strip()]
RECURSIVE StoredAirlines(_)
StoredAirlines(xs) ==
    IF xs = <<>> THEN <<>>
    ELSE (IF Strip(Head(xs)) /= "" THEN <<Upper(Strip(Head(xs)))>> ELSE <<>>)
         \o StoredAirlines(Tail(xs))

\* Mutant: a deleted provider entry is read as the default, enabled policy.
_ota_policy_missing_as_default ==
    [availability |-> TRUE, ticketing_effective |-> TRUE,
     ticketing_mode |-> "full", ticketing_schedule_ok |-> TRUE,
     filters_enabled |-> TRUE, blocked_airlines |-> <<>>]

_ota_policy_missing ==
    [availability |-> FALSE, ticketing_effective |-> FALSE,
     ticketing_mode |-> "availability_only", ticketing_schedule_ok |-> FALSE,
     filters_enabled |-> TRUE, blocked_airlines |-> <<>>]

\* Mutant: ticketing_effective does not look at availability.
_ota_policy_effective_without_availability(p, at) ==
    IF ~p.present THEN _ota_policy_missing
    ELSE LET availability == p.availability_enabled /\ ("OTA" \notin p.blocked_suppliers)
             ticketing_mode == TicketingModeNorm(p.ticketing_mode)
             ticketing_allowed_by_schedule == _ticketing_schedule_allows(p.ticketing_schedule, at)
         IN  [availability |-> availability,
              ticketing_effective |-> ticketing_mode = "full" /\ ticketing_allowed_by_schedule,
              ticketing_mode |-> IF ticketing_mode = "full" THEN "full" ELSE "availability_only",
              ticketing_schedule_ok |-> ticketing_allowed_by_schedule,
              filters_enabled |-> p.filters_enabled,
              blocked_airlines |-> StoredAirlines(p.blocked_airlines)]

_ota_policy(p, at) ==
    IF ~p.present THEN _ota_policy_missing
    ELSE LET availability == p.availability_enabled /\ ("OTA" \notin p.blocked_suppliers)
             ticketing_mode == TicketingModeNorm(p.ticketing_mode)
             ticketing_allowed_by_schedule == _ticketing_schedule_allows(p.ticketing_schedule, at)
         IN  [availability |-> availability,
              ticketing_effective |-> availability /\ ticketing_mode = "full"
                                        /\ ticketing_allowed_by_schedule,
              ticketing_mode |-> IF ticketing_mode = "full" THEN "full" ELSE "availability_only",
              ticketing_schedule_ok |-> ticketing_allowed_by_schedule,
              filters_enabled |-> p.filters_enabled,
              blocked_airlines |-> StoredAirlines(p.blocked_airlines)]

\* Stored schedules the model draws from.
AllDays == 0..6
ScheduleOff ==
    [enabled |-> FALSE,
     rules |-> << [days |-> AllDays, start |-> [hh |-> 0, mm |-> 0], end |-> [hh |-> 23, mm |-> 59]] >>]
ScheduleOvernight ==
    [enabled |-> TRUE,
     rules |-> << [days |-> AllDays, start |-> [hh |-> 22, mm |-> 0], end |-> [hh |-> 2, mm |-> 0]] >>]
ScheduleNoRules == [enabled |-> TRUE, rules |-> <<>>]
Schedules == {ScheduleOff, ScheduleOvernight, ScheduleNoRules}

DEFAULT_PERMISSIONS ==
    [present |-> TRUE, availability_enabled |-> TRUE, blocked_suppliers |-> {},
     ticketing_mode |-> "full", ticketing_schedule |-> ScheduleOff,
     filters_enabled |-> TRUE, blocked_airlines |-> <<>>]

\* The provider entry deleted by an admin.
PermMissing == [DEFAULT_PERMISSIONS EXCEPT !.present = FALSE]

PermEntries ==
    {PermMissing} \cup
    [present : {TRUE}, availability_enabled : BOOLEAN, blocked_suppliers : {{}, {"OTA"}},
     ticketing_mode : {"full", "", "availability_only"}, ticketing_schedule : Schedules,
     filters_enabled : {TRUE}, blocked_airlines : {<<>>}]

Noon == 12 * 3600
LateEvening == 23 * 3600 + 30 * 60
Instants == {[wd |-> 0, t |-> Noon], [wd |-> 6, t |-> LateEvening]}

(***************************************************************************)
(* Itineraries as book() receives them: json.loads of the request's text   *)
(***************************************************************************)

\* A vendor block: dict is TRUE for a non-empty dict (what _as_dict(v) keeps
\* and `if v:` accepts); a missing key, None, a non-dict or {} have dict FALSE.
NoBlock ==
    [dict |-> FALSE, companyShortName |-> "", CompanyShortName |-> "",
     code |-> "", Code |-> "", codeContext |-> "", CodeContext |-> ""]
VendorLower ==
    [NoBlock EXCEPT !.dict = TRUE, !.companyShortName = "IA", !.code = "IA", !.codeContext = "IATA"]
VendorUpper ==
    [NoBlock EXCEPT !.dict = TRUE, !.CompanyShortName = "TK", !.Code = "TK", !.CodeContext = "IATA"]
VendorNoCode ==
    [NoBlock EXCEPT !.dict = TRUE, !.companyShortName = "IA", !.codeContext = "IATA"]

NoInfo == [dict |-> FALSE, ticketingVendor |-> NoBlock, TicketingVendor |-> NoBlock]

\* flight segments: raw (WINGS) entries carry flightNumber, normalized ones
\* flight; dict is FALSE for a list entry that is not a dict.
RawSeg(f) == [dict |-> TRUE, flightNumber |-> f]
RawJunk == [dict |-> FALSE, flightNumber |-> ""]
NormSeg(f) == [dict |-> TRUE, flight |-> f]
NoSegments == [list |-> FALSE, items |-> <<>>]

\* {} : every key absent
EmptyDict ==
    [kind |-> "dict", ticketing |-> NoBlock, ticketingVendor |-> NoBlock,
     TicketingVendor |-> NoBlock, ticketingInfo |-> NoInfo, TicketingInfo |-> NoInfo,
     airItinerary |-> <<>>, AirItinerary |-> <<>>, segments |-> NoSegments]
\* JSON that parses to something that is not a dict
JsonList == [EmptyDict EXCEPT !.kind = "list"]
JsonNull == [EmptyDict EXCEPT !.kind = "null"]

\* bool(pi), as `if return_pi:` evaluates it
Truthy(pi) == pi.kind = "list" \/ (pi.kind = "dict" /\ pi /= EmptyDict)

PiNormalized ==
    [EmptyDict EXCEPT !.ticketing = VendorLower,
                      !.segments = [list |-> TRUE, items |-> <<NormSeg("IA101")>>]]
PiNormalizedReturn ==
    [EmptyDict EXCEPT !.ticketing = VendorLower,
                      !.segments = [list |-> TRUE, items |-> <<NormSeg("IA102")>>]]
PiRaw ==
    [EmptyDict EXCEPT !.ticketingInfo = [NoInfo EXCEPT !.dict = TRUE, !.ticketingVendor = VendorLower],
                      !.airItinerary = << <<RawSeg("IA101"), RawSeg("IA201")>> >>]
PiRawCombined ==
    [EmptyDict EXCEPT !.TicketingInfo = [NoInfo EXCEPT !.dict = TRUE, !.TicketingVendor = VendorUpper],
                      !.AirItinerary = << <<RawSeg("TK11")>>, <<RawSeg("TK12")>> >>]
PiNoVendor ==
    [EmptyDict EXCEPT !.segments = [list |-> TRUE, items |-> <<NormSeg("IA101")>>]]
PiVendorNoCode ==
    [EmptyDict EXCEPT !.ticketing = VendorNoCode, !.ticketingVendor = VendorLower,
                      !.segments = [list |-> TRUE, items |-> <<NormSeg("IA101")>>]]
PiNoSegments ==
    [EmptyDict EXCEPT !.ticketingVendor = VendorLower,
                      !.segments = [list |-> TRUE, items |-> <<>>]]
PiNoSegmentsKey == [EmptyDict EXCEPT !.TicketingVendor = VendorUpper]
PiRawEmptyLeg ==
    [EmptyDict EXCEPT !.ticketing = VendorLower,
                      !.airItinerary = << <<RawJunk>> >>,
                      !.segments = [list |-> TRUE, items |-> <<NormSeg("IA101")>>]]

\* a normalized itinerary as normalize.py emits it for a priced itinerary
\* without ticketingInfo (a ticketing dict of three None values), with the
\* vendor supplied under the top-level key
PiNormalizedNullTicketing ==
    [EmptyDict EXCEPT !.ticketing = [NoBlock EXCEPT !.dict = TRUE],
                      !.ticketingVendor = VendorLower,
                      !.segments = [list |-> TRUE, items |-> <<NormSeg("IA101")>>]]

OutboundItineraries ==
    {PiNormalized, PiRaw, PiRawCombined, PiNoVendor, PiVendorNoCode, PiNoSegments,
     PiNoSegmentsKey, PiRawEmptyLeg, PiNormalizedNullTicketing, EmptyDict, JsonList, JsonNull}
ReturnItineraries == {PiNormalizedReturn, PiRawCombined, EmptyDict, JsonList}

\* The text of an itinerary field: given is FALSE for None or "" (only the
\* optional return field), valid is whether json.loads accepts it.
JsonText(v) == [given |-> TRUE, valid |-> TRUE, val |-> v]
JsonInvalid == [given |-> TRUE, valid |-> FALSE, val |-> JsonNull]
JsonAbsent == [given |-> FALSE, valid |-> FALSE, val |-> JsonNull]

\* Passengers in a request: 0..MaxPassengers
MaxPassengers == 2

BookingRequests ==
    [trip_type : {"oneway", "roundtrip"},
     outbound_itinerary_json : {JsonInvalid} \cup {JsonText(v) : v \in OutboundItineraries},
     return_itinerary_json : {JsonAbsent, JsonInvalid} \cup {JsonText(v) : v \in ReturnItineraries},
     passengers : 0..MaxPassengers]

(***************************************************************************)
(* book(): the helpers nested in the handler                               *)
(***************************************************************************)

VendorFields(v) ==
    [companyShortName |-> Or2(v.companyShortName, Or2(v.CompanyShortName, "")),
     code |-> Or2(v.code, Or2(v.Code, "")),
     codeContext |-> Or2(v.codeContext, Or2(v.CodeContext, ""))]

_ticketing_vendor(pi) ==
    IF pi.ticketing.dict THEN VendorFields(pi.ticketing)
    ELSE IF pi.ticketingVendor.dict THEN VendorFields(pi.ticketingVendor)
    ELSE IF pi.TicketingVendor.dict THEN VendorFields(pi.TicketingVendor)
    ELSE LET ti == IF pi.ticketingInfo.dict THEN pi.ticketingInfo
                   ELSE IF pi.TicketingInfo.dict THEN pi.TicketingInfo ELSE NoInfo
             tv == IF ti.ticketingVendor.dict THEN ti.ticketingVendor
                   ELSE IF ti.TicketingVendor.dict THEN ti.TicketingVendor ELSE NoBlock
         IN  VendorFields(tv)

IsDictEntry(s) == s.dict
ConvertSeg(s) == RawSeg(s.flight)
RECURSIVE ConvertSegs(_)
ConvertSegs(items) ==
    IF items = <<>> THEN <<>>
    ELSE (IF Head(items).dict THEN <<ConvertSeg(Head(items))>> ELSE <<>>) \o ConvertSegs(Tail(items))

\* leg_index counts from 0, as in the code
_segments_from_pi(pi, leg_index) ==
    IF pi.airItinerary /= <<>> /\ leg_index < Len(pi.airItinerary)
    THEN SelectSeq(pi.airItinerary[leg_index + 1], IsDictEntry)
    ELSE IF pi.AirItinerary /= <<>> /\ leg_index < Len(pi.AirItinerary)
    THEN SelectSeq(pi.AirItinerary[leg_index + 1], IsDictEntry)
    ELSE IF pi.segments.list
    THEN (IF leg_index /= 0 THEN <<>> ELSE ConvertSegs(pi.segments.items))
    ELSE <<>>

\* Mutant: a leg without segments is rendered as an empty element, not as "".
_build_leg_xml_never_empty(pi, leg_index) ==
    IF _segments_from_pi(pi, leg_index) = <<>> THEN <<RawSeg("")>>
    ELSE _segments_from_pi(pi, leg_index)

\* The leg's XML is its sequence of FlightSegment elements; "" is <<>>.
_build_leg_xml(pi, leg_index) == _segments_from_pi(pi, leg_index)

NoXml == [direction |-> "", odo |-> <<>>, travelers |-> 0, vendor |-> VendorFields(NoBlock)]

\* What the call raises ("" when it returns) and the payload it returns.
\* A value that is not a dict has no .get: AttributeError.
_build_airbook_xml(outbound_pi, return_pi, passengers, trip_type) ==
    IF outbound_pi.kind /= "dict" THEN [raised |-> "AttributeError", xml |-> NoXml]
    ELSE LET tv == _ticketing_vendor(outbound_pi)
             direction == IF trip_type /= "roundtrip" THEN "OneWay" ELSE "Return"
             out_leg == _build_leg_xml(outbound_pi, 0)
         IN  IF ~(tv.companyShortName /= "" /\ tv.code /= "" /\ tv.codeContext /= "")
             THEN [raised |-> "ValueError: TicketingVendor not found", xml |-> NoXml]
             ELSE IF out_leg = <<>>
             THEN [raised |-> "ValueError: No outbound segments found", xml |-> NoXml]
             ELSE IF trip_type = "roundtrip" /\ Truthy(return_pi) /\ return_pi.kind /= "dict"
             THEN [raised |-> "AttributeError", xml |-> NoXml]
             ELSE LET rt_leg == IF trip_type = "roundtrip" /\ Truthy(return_pi)
                                THEN (IF _build_leg_xml(return_pi, 0) /= <<>>
                                      THEN _build_leg_xml(return_pi, 0)
                                      ELSE _build_leg_xml(return_pi, 1))
                                ELSE <<>>
                  IN  [raised |-> "",
                       xml |-> [direction |-> direction,
                                odo |-> <<out_leg>> \o (IF rt_leg /= <<>> THEN <<rt_leg>> ELSE <<>>),
                                travelers |-> passengers,
                                vendor |-> tv]]

\* The upstream response body: wellformed is whether ElementTree parses it,
\* refs its BookingReferenceID elements in document order, each with the
\* attributes ID and ID_Context (None when the attribute is missing).
BookingRef(id, ctx) == [ID |-> id, ID_Context |-> ctx]

RECURSIVE FirstId(_)
FirstId(refs) ==
    IF refs = <<>> THEN None
    ELSE IF Head(refs).ID /= None /\ Head(refs).ID /= "" THEN Head(refs).ID
    ELSE FirstId(Tail(refs))

\* str.lower() of the ID_Context values the model draws from
Lower(s) == IF s = "ConnectOTA" THEN "connectota" ELSE s

RECURSIVE LastConnectOta(_, _)
LastConnectOta(refs, acc) ==
    IF refs = <<>> THEN acc
    ELSE LET br == Head(refs)
         IN  LastConnectOta(Tail(refs),
                 IF br.ID_Context /= None /\ br.ID_Context /= "" /\ Lower(br.ID_Context) = "connectota"
                 THEN br.ID ELSE acc)

_extract_refs(body) ==
    IF body.wellformed
    THEN [pnr |-> FirstId(body.refs), connectota_id |-> LastConnectOta(body.refs, None)]
    ELSE [pnr |-> FirstId(body.refs), connectota_id |-> None]

(***************************************************************************)
(* book(): responses                                                       *)
(***************************************************************************)

NoResponse ==
    [http |-> 0, pending |-> FALSE, status |-> "", pending_id |-> "", provider |-> "",
     reason |-> "", pnr |-> None, connectota_id |-> None, error |-> "", disabled |-> FALSE]

\* JSONResponse({"error": ...}, 500) and HTTPException(status_code=400, detail=...)
ErrorResponse(code, text) == [NoResponse EXCEPT !.http = code, !.error = text]

\* {"meta": {"disabled": True, "reason": ...}, "results_outbound": []}
DisabledResponse ==
    [NoResponse EXCEPT !.http = 200, !.disabled = TRUE, !.reason = "Provider OTA is disabled"]

\* uuid4().hex[:10].upper()
UuidHex == {"0A1B2C3D4E", "FFFFFFFFFF"}
PendingId(u) == "PND-" \o u

\* Mutant: the pending id is left out of the response.
PendingResponseWithoutId(code, u, why) ==
    [NoResponse EXCEPT !.http = code, !.pending = TRUE, !.status = "pending",
                       !.provider = "OTA", !.reason = why]

PendingResponse(code, u, why) ==
    [NoResponse EXCEPT !.http = code, !.pending = TRUE, !.status = "pending",
                       !.pending_id = PendingId(u), !.provider = "OTA", !.reason = why]

SuccessResponse(refs) ==
    [NoResponse EXCEPT !.http = 200, !.status = "success",
                       !.pnr = refs.pnr, !.connectota_id = refs.connectota_id]

ReasonGate == "Ticketing is disabled by permissions or schedule."
ReasonUpstream == "Ticketing failed upstream. Manual completion required."
ReasonFailed == "Ticketing failed. Manual completion required."

(***************************************************************************)
(* book(): the handler.  It awaits once, on client.air_book; everything    *)
(* before that is one step, and so is everything after.                    *)
(***************************************************************************)

NoPolicy ==
    [availability |-> FALSE, ticketing_effective |-> FALSE,
     ticketing_mode |-> "", ticketing_schedule_ok |-> FALSE,
     filters_enabled |-> FALSE, blocked_airlines |-> <<>>]
NoRequest ==
    [trip_type |-> "", outbound_itinerary_json |-> JsonAbsent,
     return_itinerary_json |-> JsonAbsent, passengers |-> 0]

\* Mutant: the passenger list is not checked.
InputErrorPassengersUnchecked(req) ==
    IF ~req.outbound_itinerary_json.valid THEN "Invalid outbound_itinerary_json"
    ELSE IF req.return_itinerary_json.given /\ ~req.return_itinerary_json.valid
    THEN "Invalid return_itinerary_json"
    ELSE ""

\* The first client-input check that fails, "" when none does (lines 778-791).
InputError(req) ==
    IF ~req.outbound_itinerary_json.valid THEN "Invalid outbound_itinerary_json"
    ELSE IF req.return_itinerary_json.given /\ ~req.return_itinerary_json.valid
    THEN "Invalid return_itinerary_json"
    ELSE IF req.passengers = 0 THEN "passengers is required"
    ELSE ""

BuildFor(req) ==
    _build_airbook_xml(req.outbound_itinerary_json.val,
                       IF req.return_itinerary_json.given
                       THEN req.return_itinerary_json.val ELSE JsonNull,
                       req.passengers, req.trip_type)

BookFinish(req, pol, resp) ==
    /\ bpc' = "done"
    /\ breq' = req
    /\ bpol' = pol
    /\ outcome' = resp
    /\ UNCHANGED <<configured, perm, now, airbook_xml, airBookCalls, upstream, seatVars, otherVars>>

\* lines 311-322
BookNotConfigured(req) ==
    /\ bpc = "idle"
    /\ ~configured
    /\ BookFinish(req, NoPolicy, ErrorResponse(500, "WINGS credentials not configured."))

\* lines 325-327
BookProviderDisabled(req) ==
    /\ bpc = "idle"
    /\ configured
    /\ LET pol == _ota_policy(perm, now)
       IN  /\ ~pol.availability
           /\ BookFinish(req, pol, DisabledResponse)

\* lines 331-340
BookTicketingGate(req, u) ==
    /\ bpc = "idle"
    /\ configured
    /\ LET pol == _ota_policy(perm, now)
       IN  /\ pol.availability
           /\ ~pol.ticketing_effective
           /\ BookFinish(req, pol, PendingResponse(200, u, ReasonGate))

\* lines 778-791
BookInvalidInput(req) ==
    /\ bpc = "idle"
    /\ configured
    /\ LET pol == _ota_policy(perm, now)
       IN  /\ pol.availability
           /\ pol.ticketing_effective
           /\ InputError(req) /= ""
           /\ BookFinish(req, pol, ErrorResponse(400, InputError(req)))

\* lines 794-801 raising, caught at 827-839
BookBuildFails(req, u) ==
    /\ bpc = "idle"
    /\ configured
    /\ LET pol == _ota_policy(perm, now)
       IN  /\ pol.availability
           /\ pol.ticketing_effective
           /\ InputError(req) = ""
           /\ BuildFor(req).raised /= ""
           /\ BookFinish(req, pol, PendingResponse(202, u, ReasonFailed))

\* lines 794-802: the payload is built and POSTed
BookSend(req) ==
    /\ bpc = "idle"
    /\ configured
    /\ LET pol == _ota_policy(perm, now)
       IN  /\ pol.availability
           /\ pol.ticketing_effective
           /\ InputError(req) = ""
           /\ BuildFor(req).raised = ""
           /\ bpc' = "calling"
           /\ breq' = req
           /\ bpol' = pol
           /\ airbook_xml' = BuildFor(req).xml
           /\ airBookCalls' = airBookCalls + 1
           /\ UNCHANGED <<configured, perm, now, upstream, outcome, seatVars, otherVars>>

\* httpx: raise_for_status() raises HTTPStatusError unless the status is 2xx
UpstreamStatuses == {200, 201, 400, 503}
IsSuccessStatus(code) == code >= 200 /\ code <= 299

BookingRefs ==
    {BookingRef("PNR123", None), BookingRef("OTA77", "ConnectOTA"),
     BookingRef(None, "connectota"), BookingRef("", None)}
\* BookingReferenceID elements in a response body: 0..MaxRefs
MaxRefs == 2
RefSeqs == UNION {[1..n -> BookingRefs] : n \in 0..MaxRefs}
ResponseBodies == [wellformed : BOOLEAN, refs : RefSeqs]

NoUpstream == [kind |-> "none", code |-> 0, body |-> [wellformed |-> FALSE, refs |-> <<>>]]

AirBookFinish(up, resp) ==
    /\ bpc' = "done"
    /\ upstream' = up
    /\ outcome' = resp
    /\ UNCHANGED <<configured, perm, now, breq, bpol, airbook_xml, airBookCalls, seatVars, otherVars>>

\* Mutant: a 2xx response without a reference is queued as Pending.
AirBookReturnsNeedsPnr(code, body) ==
    /\ bpc = "calling"
    /\ IsSuccessStatus(code)
    /\ AirBookFinish([kind |-> "returned", code |-> code, body |-> body],
                     IF _extract_refs(body).pnr = None
                     THEN PendingResponse(202, "FFFFFFFFFF", ReasonFailed)
                     ELSE SuccessResponse(_extract_refs(body)))

\* wings_client.py 33-36 returning, then flights.py 803-812
AirBookReturns(code, body) ==
    /\ bpc = "calling"
    /\ IsSuccessStatus(code)
    /\ AirBookFinish([kind |-> "returned", code |-> code, body |-> body],
                     SuccessResponse(_extract_refs(body)))

\* Mutant: the handler POSTs again after an HTTP error instead of answering.
AirBookHttpErrorRetried(code, u) ==
    /\ bpc = "calling"
    /\ ~IsSuccessStatus(code)
    /\ airBookCalls < 3
    /\ airBookCalls' = airBookCalls + 1
    /\ UNCHANGED <<configured, perm, now, bpc, breq, bpol, airbook_xml, upstream, outcome, seatVars, otherVars>>

\* wings_client.py 35 raising, caught at flights.py 813-826
AirBookHttpError(code, u) ==
    /\ bpc = "calling"
    /\ ~IsSuccessStatus(code)
    /\ AirBookFinish([NoUpstream EXCEPT !.kind = "http_error", !.code = code],
                     PendingResponse(202, u, ReasonUpstream))

\* wings_client.py 34 raising (connect error, timeout), caught at flights.py 827-839
AirBookTransportError(u) ==
    /\ bpc = "calling"
    /\ AirBookFinish([NoUpstream EXCEPT !.kind = "transport_error"],
                     PendingResponse(202, u, ReasonFailed))

\* (the guards on bpc are repeated outside the quantifiers so that the
\* inputs are enumerated only where the step can be taken)
BookNext ==
    \/ bpc = "idle" /\ \E req \in BookingRequests : BookNotConfigured(req)
    \/ bpc = "idle" /\ \E req \in BookingRequests : BookProviderDisabled(req)
    \/ bpc = "idle" /\ \E req \in BookingRequests, u \in UuidHex : BookTicketingGate(req, u)
    \/ bpc = "idle" /\ \E req \in BookingRequests : BookInvalidInput(req)
    \/ bpc = "idle" /\ \E req \in BookingRequests, u \in UuidHex : BookBuildFails(req, u)
    \/ bpc = "idle" /\ \E req \in BookingRequests : BookSend(req)
    \/ bpc = "calling" /\ \E code \in UpstreamStatuses, body \in ResponseBodies : AirBookReturns(code, body)
    \/ bpc = "calling" /\ \E code \in UpstreamStatuses, u \in UuidHex : AirBookHttpError(code, u)
    \/ bpc = "calling" /\ \E u \in UuidHex : AirBookTransportError(u)

\* An unconfigured gateway never reads its permissions: it is drawn with
\* the permissions of a fresh install or with the provider entry deleted.
BookInit ==
    /\ perm \in PermEntries
    /\ now \in Instants
    /\ configured \in (IF perm \in {DEFAULT_PERMISSIONS, PermMissing} THEN BOOLEAN ELSE {TRUE})
    /\ bpc = "idle"
    /\ breq = NoRequest
    /\ bpol = NoPolicy
    /\ airbook_xml = NoXml
    /\ airBookCalls = 0
    /\ upstream = NoUpstream
    /\ outcome = NoResponse

\* The gateway as deployed by default and no Book request in progress.
BookQuiet ==
    /\ configured = TRUE
    /\ perm = DEFAULT_PERMISSIONS
    /\ now = [wd |-> 0, t |-> Noon]
    /\ bpc = "idle"
    /\ breq = NoRequest
    /\ bpol = NoPolicy
    /\ airbook_xml = NoXml
    /\ airBookCalls = 0
    /\ upstream = NoUpstream
    /\ outcome = NoResponse

(***************************************************************************)
(* Seat estimation: apps/web_portal/app.py                                 *)
(***************************************************************************)

\* None as a seat count
Unset == -1
max_check == 8
SeatsCap == 9

NoPayload == [adults |-> 0, children |-> 0, infants |-> 0]
Unrestricted == [restricted |-> FALSE, ids |-> {}]
NoDict == [k \in {} |-> Unset]
NoReturn == [returned |-> FALSE, raised |-> FALSE, out |-> NoDict, in |-> NoDict,
             outbound |-> <<>>, inbound |-> <<>>]

SeatsQuiet ==
    /\ epc = "idle"
    /\ efn = "none"
    /\ payload = NoPayload
    /\ allowed_providers = Unrestricted
    /\ keys_out = {}
    /\ keys_in = {}
    /\ outbound = <<>>
    /\ inbound = <<>>
    /\ seats_out = NoDict
    /\ seats_in = NoDict
    /\ pax_total = 0
    /\ probes = 0
    /\ probeAdults = 0
    /\ probeFailed = FALSE
    /\ firstAbsentOut = NoDict
    /\ firstAbsentIn = NoDict
    /\ eret = NoReturn

Max(a, b) == IF a >= b THEN a ELSE b
\* Mutant: max where min is meant.
MinSwapped(a, b) == IF a <= b THEN b ELSE a
Min(a, b) == IF a <= b THEN a ELSE b

\* int(pax.get("adults") or 1), int(pax.get("children") or 0), ...
base_adults(pl) == IF pl.adults = 0 THEN 1 ELSE pl.adults
base_total(pl) == Max(1, base_adults(pl) + pl.children + pl.infants)

\* a result r of a probe is held as [key |-> _flight_key(r), pid |-> _extract_provider_id(r)]
_filter_by_allowed_providers(results, allowed) ==
    IF ~allowed.restricted THEN results
    ELSE {r \in results : r.pid = "" \/ r.pid \in allowed.ids}

\* {_flight_key(x) for x in res if _flight_key(x)}
KeySet(results) == {r.key : r \in {x \in results : x.key /= ""}}

\* {str(k): None for k in keys if str(k)}
FreshSeats(keys) == [k \in {x \in keys : x /= ""} |-> Unset]

\* Mutant: a key that disappears is given one seat too few.
ResolveOneTooFew(seats, present, pt) ==
    [k \in DOMAIN seats |-> IF seats[k] = Unset /\ k \notin present THEN pt - 2 ELSE seats[k]]

\* Mutant: a key is assigned whenever it is absent, resolved or not.
ResolveOverwriting(seats, present, pt) ==
    [k \in DOMAIN seats |-> IF k \notin present THEN pt - 1 ELSE seats[k]]

\* one pass of the loop body over a seats dict (lines 1019-1024, 950-955)
Resolve(seats, present, pt) ==
    [k \in DOMAIN seats |-> IF seats[k] = Unset /\ k \notin present THEN pt - 1 ELSE seats[k]]

\* lines 1026-1031, 957-962
CapUnresolved(seats) ==
    [k \in DOMAIN seats |-> IF seats[k] = Unset THEN SeatsCap ELSE seats[k]]

\* lines 964-971: r["_seats_available"] for each result, Unset where not written
WriteSeats(results, seats) ==
    [i \in 1..Len(results) |->
        IF results[i] /= "" /\ results[i] \in DOMAIN seats THEN seats[results[i]] ELSE Unset]

Range(q) == {q[i] : i \in 1..Len(q)}

\* history: the first pax_total at which each tracked key was absent, 0 if none yet
NoteAbsent(first, present, pt) ==
    [k \in DOMAIN first |-> IF first[k] = 0 /\ k \notin present THEN pt ELSE first[k]]

\* Passenger counts of the search payload
MaxAdults == 8
MaxChildren == 1
Payloads == [adults : 0..MaxAdults, children : 0..MaxChildren, infants : {0, 1}]

AllowedProviders == {Unrestricted, [restricted |-> TRUE, ids |-> {"ota"}]}
KeysOutRequests == {{}, {"K1"}, {"", "K1", "K2"}}
KeysInRequests == {{}, {"K1"}}
OutboundLists == {<<>>, <<"K1">>, <<"K2", "", "K1", "K2">>}
InboundLists == {<<>>, <<"K1">>}
ProbeOutItems == {[key |-> "K1", pid |-> ""], [key |-> "K1", pid |-> "other"],
                  [key |-> "K2", pid |-> "ota"]}
ProbeInItems == {[key |-> "K1", pid |-> "ota"], [key |-> "", pid |-> ""]}
ProbeData == [results : SUBSET ProbeOutItems, results_return : SUBSET ProbeInItems]

EstimateReturn(ret) ==
    /\ epc' = "done"
    /\ eret' = ret

\* _estimate_seats_for_keys, lines 982-1000
EstimateKeysStart(pl, ko, ki, ap) ==
    /\ epc = "idle"
    /\ efn' = "keys"
    /\ payload' = pl
    /\ allowed_providers' = ap
    /\ keys_out' = ko
    /\ keys_in' = ki
    /\ seats_out' = FreshSeats(ko)
    /\ seats_in' = FreshSeats(ki)
    /\ firstAbsentOut' = [k \in DOMAIN FreshSeats(ko) |-> 0]
    /\ firstAbsentIn' = [k \in DOMAIN FreshSeats(ki) |-> 0]
    /\ IF DOMAIN FreshSeats(ko) = {} /\ DOMAIN FreshSeats(ki) = {}
       THEN /\ EstimateReturn([NoReturn EXCEPT !.returned = TRUE])
            /\ pax_total' = pax_total
       ELSE IF base_total(pl) >= max_check
       THEN /\ EstimateReturn([NoReturn EXCEPT !.returned = TRUE,
                   !.out = [k \in DOMAIN FreshSeats(ko) |-> Min(SeatsCap, base_total(pl))],
                   !.in = [k \in DOMAIN FreshSeats(ki) |-> Min(SeatsCap, base_total(pl))]])
            /\ pax_total' = pax_total
       ELSE /\ epc' = "probing"
            /\ pax_total' = base_total(pl) + 1
            /\ eret' = eret
    /\ UNCHANGED <<outbound, inbound, probes, probeAdults, probeFailed, bookVars, otherVars>>

\* _estimate_seats_for_results, lines 911-931
EstimateResultsStart(pl, ob, ib, ap) ==
    /\ epc = "idle"
    /\ efn' = "results"
    /\ payload' = pl
    /\ allowed_providers' = ap
    /\ outbound' = ob
    /\ inbound' = ib
    /\ seats_out' = FreshSeats(Range(ob))
    /\ seats_in' = FreshSeats(Range(ib))
    /\ firstAbsentOut' = [k \in DOMAIN FreshSeats(Range(ob)) |-> 0]
    /\ firstAbsentIn' = [k \in DOMAIN FreshSeats(Range(ib)) |-> 0]
    /\ IF base_total(pl) >= max_check
       THEN /\ EstimateReturn([NoReturn EXCEPT !.returned = TRUE,
                   !.outbound = [i \in 1..Len(ob) |-> Min(SeatsCap, base_total(pl))],
                   !.inbound = [i \in 1..Len(ib) |-> Min(SeatsCap, base_total(pl))]])
            /\ pax_total' = pax_total
       ELSE /\ epc' = "probing"
            /\ pax_total' = base_total(pl) + 1
            /\ eret' = eret
    /\ UNCHANGED <<keys_out, keys_in, probes, probeAdults, probeFailed, bookVars, otherVars>>

\* What the estimator hands back once the loop has run to its end.
Estimated(so, si) ==
    IF efn = "keys"
    THEN [NoReturn EXCEPT !.returned = TRUE, !.out = so, !.in = si]
    ELSE [NoReturn EXCEPT !.returned = TRUE, !.outbound = WriteSeats(outbound, so),
                          !.inbound = WriteSeats(inbound, si)]

\* One iteration of the probe loop whose search succeeds
\* (lines 1002-1024 and 933-955), and the code after the loop when it was the last.
ProbeAnswered(data) ==
    /\ epc = "probing"
    /\ LET out_set == KeySet(_filter_by_allowed_providers(data.results, allowed_providers))
           in_set == KeySet(_filter_by_allowed_providers(data.results_return, allowed_providers))
           so == Resolve(seats_out, out_set, pax_total)
           si == Resolve(seats_in, in_set, pax_total)
       IN  /\ probes' = probes + 1
           /\ probeAdults' = Max(1, base_adults(payload) + (pax_total - base_total(payload)))
           /\ firstAbsentOut' = NoteAbsent(firstAbsentOut, out_set, pax_total)
           /\ firstAbsentIn' = NoteAbsent(firstAbsentIn, in_set, pax_total)
           /\ IF pax_total < max_check
              THEN /\ pax_total' = pax_total + 1
                   /\ seats_out' = so
                   /\ seats_in' = si
                   /\ UNCHANGED <<epc, eret>>
              ELSE /\ pax_total' = pax_total
                   /\ seats_out' = CapUnresolved(so)
                   /\ seats_in' = CapUnresolved(si)
                   /\ EstimateReturn(Estimated(CapUnresolved(so), CapUnresolved(si)))
    /\ UNCHANGED <<efn, payload, allowed_providers, keys_out, keys_in, outbound, inbound,
                   probeFailed, bookVars, otherVars>>

\* Mutant: the except clause hands back what was resolved so far.
AbandonedWithPartial == Estimated(seats_out, seats_in)

\* What the estimator hands back from its except clause (lines 1032-1033, 972-973).
Abandoned ==
    IF efn = "keys"
    THEN [NoReturn EXCEPT !.returned = TRUE]
    ELSE [NoReturn EXCEPT !.returned = TRUE, !.outbound = [i \in 1..Len(outbound) |-> Unset],
                          !.inbound = [i \in 1..Len(inbound) |-> Unset]]

\* An iteration whose search raises: requests.post, raise_for_status or r.json()
ProbeFails ==
    /\ epc = "probing"
    /\ probes' = probes + 1
    /\ probeAdults' = Max(1, base_adults(payload) + (pax_total - base_total(payload)))
    /\ probeFailed' = TRUE
    /\ EstimateReturn(Abandoned)
    /\ UNCHANGED <<efn, payload, allowed_providers, keys_out, keys_in, outbound, inbound,
                   seats_out, seats_in, pax_total,
                   firstAbsentOut, firstAbsentIn, bookVars, otherVars>>

SeatsNext ==
    \/ epc = "idle" /\ \E pl \in Payloads, ko \in KeysOutRequests, ki \in KeysInRequests,
                          ap \in AllowedProviders : EstimateKeysStart(pl, ko, ki, ap)
    \/ epc = "idle" /\ \E pl \in Payloads, ob \in OutboundLists, ib \in InboundLists,
                          ap \in AllowedProviders : EstimateResultsStart(pl, ob, ib, ap)
    \/ epc = "probing" /\ \E data \in ProbeData : ProbeAnswered(data)
    \/ ProbeFails

(***************************************************************************)
(* Search: the upstream AirLowFareSearch JSON and normalize.py             *)
(***************************************************************************)

\* One flightSegment entry of the upstream JSON; "" stands for a missing
\* key, None or "".  The airline fields hold the block's code.
FlightSegment(dep, arr, dep_dt, arr_dt, op, mk, flight) ==
    [departureAirport |-> dep, arrivalAirport |-> arr,
     departureDateTime |-> dep_dt, arrivalDateTime |-> arr_dt,
     operatingAirline |-> op, marketingAirline |-> mk, flightNumber |-> flight]

\* The value under "flightSegment" (and under "pricedItinerary"): a list,
\* a single dict, or None / missing.
AsJsonList(items) == [kind |-> "list", items |-> items]
AsJsonDict(item) == [kind |-> "dict", items |-> <<item>>]
JsonMissing == [kind |-> "none", items |-> <<>>]

\* `x or []` followed by `if not isinstance(x, list): x = [x]`
ListOf(v) == v.items

\* itinTotalFare[0].totalFare: given is FALSE when the block is missing;
\* amount is NoAmount when the key is missing or None.
NoAmount == -1
TotalFare(ccy, amt) == [given |-> TRUE, currencyCode |-> ccy, amount |-> amt]
NoFare == [given |-> FALSE, currencyCode |-> "", amount |-> NoAmount]

\* A priced itinerary: sequenceNumber 0 stands for a missing one;
\* originDestinationOption is the list of directional options, each the
\* value under its "flightSegment".
PricedItinerary(seq, options, fare, vendor) ==
    [sequenceNumber |-> seq, originDestinationOption |-> options,
     totalFare |-> fare, ticketingVendor |-> vendor]

\* f"{n:,}" of a whole amount below one million
Pad3(n) ==
    IF n < 10 THEN "00" \o ToString(n)
    ELSE IF n < 100 THEN "0" \o ToString(n) ELSE ToString(n)
Grouped(n) ==
    IF n < 1000 THEN ToString(n)
    ELSE ToString(n \div 1000) \o "," \o Pad3(n % 1000)

\* _money_amount: float(x), 0.0 when that raises
_money_amount(x) == IF x = NoAmount THEN 0 ELSE x

\* A normalized segment and itinerary, as normalize.py emits them.
NormalizeSegment(s) ==
    [dep |-> s.departureAirport, arr |-> s.arrivalAirport,
     dep_dt |-> s.departureDateTime, arr_dt |-> s.arrivalDateTime,
     airline |-> Or2(s.operatingAirline, Or2(s.marketingAirline, "")),
     flight |-> s.flightNumber]

RECURSIVE NormalizeSegments(_)
NormalizeSegments(segs) ==
    IF segs = <<>> THEN <<>>
    ELSE <<NormalizeSegment(Head(segs))>> \o NormalizeSegments(Tail(segs))

\* The ticketing block is always a dict of three keys, None where the
\* priced itinerary had no vendor.
NormalizedTicketing(v) ==
    [NoBlock EXCEPT !.dict = TRUE, !.companyShortName = v.companyShortName,
                    !.code = v.code, !.codeContext = v.codeContext]

\* _parse_dt of the date-time strings the model draws from: T1..T7 stand for
\* WINGS timestamps such as 2026-02-02T14:20:00.000+0300, and the table gives
\* the instant each denotes in seconds after T1; any other string (a padded
\* timestamp, "") matches neither strptime format and gives None.
NoInstant == -1
_parse_dt(dt) ==
    CASE dt = "T1" -> 0
      [] dt = "T2" -> 9000
      [] dt = "T3" -> 5400
      [] dt = "T4" -> 9030
      [] dt = "T5" -> 19845
      [] dt = "T6" -> 604800
      [] dt = "T7" -> 612059
      [] OTHER -> NoInstant

\* Mutant: the difference is not clamped at 0.
_duration_minutes_unclamped(dep_dt, arr_dt) ==
    IF _parse_dt(dep_dt) = NoInstant \/ _parse_dt(arr_dt) = NoInstant THEN 0
    ELSE (_parse_dt(arr_dt) - _parse_dt(dep_dt)) \div 60

\* max(0, int(delta.total_seconds() // 60))
_duration_minutes(dep_dt, arr_dt) ==
    LET d0 == _parse_dt(dep_dt)
        d1 == _parse_dt(arr_dt)
    IN  IF d0 = NoInstant \/ d1 = NoInstant THEN 0
        ELSE Max(0, (d1 - d0) \div 60)

NormalizedItinerary(pi, idx, segs) ==
    [sequenceNumber |-> IF pi.sequenceNumber /= 0 THEN pi.sequenceNumber ELSE idx,
     segments |-> NormalizeSegments(segs),
     \* (an itinerary without segments was skipped before this point)
     summary |-> [duration_mins |->
                    IF segs = <<>> THEN 0
                    ELSE _duration_minutes(NormalizeSegments(segs)[1].dep_dt,
                                           NormalizeSegments(segs)[Len(segs)].arr_dt)],
     total_currency |-> IF pi.totalFare.given THEN Or2(pi.totalFare.currencyCode, "IQD") ELSE "IQD",
     total_amount |-> Grouped(_money_amount(pi.totalFare.amount)),
     amount_raw |-> _money_amount(pi.totalFare.amount),
     ticketing |-> NormalizedTicketing(pi.ticketingVendor),
     roundtrip_total_currency |-> None,
     roundtrip_total_amount |-> None,
     roundtrip_amount_raw |-> NoAmount]

\* The segments normalize.py reads: the first directional option's.
FirstOptionSegments(pi) ==
    IF pi.originDestinationOption = <<>> THEN <<>>
    ELSE ListOf(pi.originDestinationOption[1])

\* Mutant: an itinerary without segments is kept, with an empty segment list.
NormalizeFromKeepsEmpty(pis, idx) ==
    [i \in 1..(Len(pis) - idx + 1) |->
        NormalizedItinerary(pis[idx + i - 1], idx + i - 1, FirstOptionSegments(pis[idx + i - 1]))]

\* The loop of normalize_priced_itineraries from the idx-th itinerary on.
RECURSIVE NormalizeFrom(_, _)
NormalizeFrom(pis, idx) ==
    IF idx > Len(pis) THEN <<>>
    ELSE LET segs == FirstOptionSegments(pis[idx])
         IN  (IF segs = <<>> THEN <<>> ELSE <<NormalizedItinerary(pis[idx], idx, segs)>>)
             \o NormalizeFrom(pis, idx + 1)

\* An upstream answer: kind is "none" before the call is answered, "json"
\* for a 2xx answer with a JSON object, "failed" when the call raised.
NoAnswer == [kind |-> "none", echoToken |-> None, pricedItinerary |-> JsonMissing]
FailedAnswer == [NoAnswer EXCEPT !.kind = "failed"]
SearchAnswer(pis) == [kind |-> "json", echoToken |-> "tok", pricedItinerary |-> pis]

normalize_priced_itineraries(resp) ==
    [meta |-> [echoToken |-> resp.echoToken],
     results_outbound |-> NormalizeFrom(ListOf(resp.pricedItinerary), 1)]

(***************************************************************************)
(* Search: signatures, the round-trip price map and the airline filter     *)
(***************************************************************************)

\* "|".join of six parts
Join6(a, b, c, d, e, f) == a \o "|" \o b \o "|" \o c \o "|" \o d \o "|" \o e \o "|" \o f

\* availability()._seg_sig: the signature of a raw flightSegment
_seg_sig(seg) ==
    Join6(Upper(seg.departureAirport), Upper(seg.arrivalAirport),
          Strip(seg.departureDateTime), Strip(seg.arrivalDateTime),
          Upper(Or2(seg.operatingAirline, Or2(seg.marketingAirline, ""))),
          Strip(seg.flightNumber))

\* {} as a normalized segment: every .get() is None
NoSegment == [dep |-> "", arr |-> "", dep_dt |-> "", arr_dt |-> "", airline |-> "", flight |-> ""]
FirstSegment(r) == IF r.segments = <<>> THEN NoSegment ELSE r.segments[1]

\* Mutant: the signature takes the components as they are spelled.
_norm_sig_from_result_as_spelled(r) ==
    LET s0 == FirstSegment(r)
    IN  Join6(s0.dep, s0.arr, s0.dep_dt, s0.arr_dt, s0.airline, s0.flight)

\* availability()._norm_sig_from_result: the signature of a normalized itinerary
_norm_sig_from_result(r) ==
    LET s0 == FirstSegment(r)
    IN  Join6(Upper(s0.dep), Upper(s0.arr), Strip(s0.dep_dt), Strip(s0.arr_dt),
              Upper(s0.airline), Strip(s0.flight))

\* The portal's key of a normalized itinerary: every segment, "||" between.
FlightKeyPart(s) == Join6(s.airline, s.flight, s.dep, s.arr, s.dep_dt, s.arr_dt)
RECURSIVE _flight_key_parts(_)
_flight_key_parts(segs) ==
    IF segs = <<>> THEN ""
    ELSE IF Len(segs) = 1 THEN FlightKeyPart(segs[1])
    ELSE FlightKeyPart(segs[1]) \o "||" \o _flight_key_parts(Tail(segs))
_flight_key(result) == _flight_key_parts(result.segments)

\* _fmt_money of an amount that float() accepts
_fmt_money(v) == [amount |-> Grouped(v), amount_raw |-> v]

NoEntry == [currency |-> None, amount |-> None, amount_raw |-> NoAmount]
NoPriceMap == [k \in {} |-> NoEntry]

\* out[sig] = {...}
PutEntry(out, sig, entry) ==
    [k \in (DOMAIN out) \cup {sig} |-> IF k = sig THEN entry ELSE out[k]]

\* The loop of _roundtrip_price_map over the combined search's itineraries.
RECURSIVE PriceMapFrom(_, _)
PriceMapFrom(pis, out) ==
    IF pis = <<>> THEN out
    ELSE LET pi == Head(pis)
             odo_list == pi.originDestinationOption
             segs_ret == IF Len(odo_list) < 2 THEN <<>> ELSE ListOf(odo_list[2])
             amt == IF pi.totalFare.given THEN pi.totalFare.amount ELSE NoAmount
             ccy == IF pi.totalFare.given THEN Or2(pi.totalFare.currencyCode, "IQD") ELSE "IQD"
         IN  IF Len(odo_list) < 2 \/ segs_ret = <<>> \/ amt = NoAmount
             THEN PriceMapFrom(Tail(pis), out)
             ELSE PriceMapFrom(Tail(pis),
                      PutEntry(out, _seg_sig(segs_ret[1]),
                               [currency |-> ccy, amount |-> _fmt_money(amt).amount,
                                amount_raw |-> _fmt_money(amt).amount_raw]))

_roundtrip_price_map(resp) == PriceMapFrom(ListOf(resp.pricedItinerary), NoPriceMap)

\* Mutant: the merge overwrites the one-way total with the round-trip total.
EnrichOverwritingTotal(rr, map) ==
    LET sig == _norm_sig_from_result(rr)
    IN  IF sig \in DOMAIN map
        THEN [rr EXCEPT !.roundtrip_total_currency = map[sig].currency,
                        !.roundtrip_total_amount = map[sig].amount,
                        !.roundtrip_amount_raw = map[sig].amount_raw,
                        !.total_amount = map[sig].amount,
                        !.amount_raw = map[sig].amount_raw]
        ELSE rr

\* The body of `for rr in results_return`: lines 275-280.
Enrich(rr, map) ==
    LET sig == _norm_sig_from_result(rr)
    IN  IF sig \in DOMAIN map
        THEN [rr EXCEPT !.roundtrip_total_currency = map[sig].currency,
                        !.roundtrip_total_amount = map[sig].amount,
                        !.roundtrip_amount_raw = map[sig].amount_raw]
        ELSE rr

EnrichAll(rs, map) == [i \in 1..Len(rs) |-> Enrich(rs[i], map)]

\* set(str(x).upper() for x in blocked_airlines if str(x).strip())
BlockedSet(blocked_airlines) ==
    {Upper(blocked_airlines[i]) : i \in {j \in 1..Len(blocked_airlines) : Strip(blocked_airlines[j]) /= ""}}

\* Mutant: the filter compares the code as stored, without upper-casing it.
_is_blocked_case_sensitive(it, blocked) == Strip(FirstSegment(it).airline) \in blocked

_is_blocked(it, blocked) == Upper(Strip(FirstSegment(it).airline)) \in blocked

\* Lines 283-297, for one of the two lists.
ApplyFilters(pol, rs, which) ==
    IF pol.filters_enabled /\ pol.blocked_airlines /= <<>>
    THEN LET blocked == BlockedSet(pol.blocked_airlines)
             Keep(r) == ~_is_blocked(r, blocked)
         IN  SelectSeq(rs, Keep)
    ELSE rs

(***************************************************************************)
(* Search: what the upstream may answer                                    *)
(***************************************************************************)

SegIA101 == FlightSegment("BGW", "DXB", "T1", "T2", "IA", "IA", "101")
\* the same flight, spelled differently
SegIA101Spelled == FlightSegment("bgw", "dxb", " T1 ", "T2", "ia", "", " 101 ")
SegTK11 == FlightSegment("BGW", "IST", "T1", "T3", "", "TK", "11")
SegTK12 == FlightSegment("IST", "DXB", "T4", "T5", "TK", "TK", "12")
SegIA102 == FlightSegment("DXB", "BGW", "T6", "T7", "IA", "IA", "102")
SegIA102Spelled == FlightSegment("dxb", "bgw", "T6", "T7", "ia", "IA", "102")
\* inconsistent timestamps: the arrival is before the departure
SegTK21 == FlightSegment("DXB", "BGW", "T7", "T6", "TK", "TK", "21")
\* codes that contain the separator
SegBarDep == FlightSegment("DXB|BGW", "", "T6", "T7", "IA", "IA", "102")
SegBarArr == FlightSegment("DXB", "BGW|", "T6", "T7", "IA", "IA", "102")

OneWay(seq, segs, amt) == PricedItinerary(seq, <<AsJsonList(segs)>>, TotalFare("USD", amt), VendorLower)
ItinIA == OneWay(1, <<SegIA101>>, 250)
ItinIASpelled == PricedItinerary(0, <<AsJsonDict(SegIA101Spelled)>>, TotalFare("", 1250), NoBlock)
ItinTK == OneWay(2, <<SegTK11, SegTK12>>, 300)
ItinNoSegments == OneWay(3, <<>>, 100)
ItinSegmentsMissing == PricedItinerary(4, <<JsonMissing>>, TotalFare("USD", 100), VendorLower)
ItinNoOptions == PricedItinerary(0, <<>>, NoFare, NoBlock)
ItinBackIA == OneWay(1, <<SegIA102>>, 260)
ItinBackIASpelled == OneWay(2, <<SegIA102Spelled>>, 270)
ItinBackTK == OneWay(3, <<SegTK21>>, 310)
ItinBackBarDep == OneWay(1, <<SegBarDep>>, 100)
ItinBackBarArr == OneWay(2, <<SegBarArr>>, 100)

RoundTrip(seq, out_segs, back_segs, fare) ==
    PricedItinerary(seq, <<AsJsonList(out_segs), AsJsonList(back_segs)>>, fare, VendorLower)
ItinRtIA == RoundTrip(1, <<SegIA101>>, <<SegIA102>>, TotalFare("USD", 450))
ItinRtIACheaper == RoundTrip(2, <<SegTK11, SegTK12>>, <<SegIA102Spelled>>, TotalFare("", 1400))
ItinRtTK == RoundTrip(3, <<SegIA101>>, <<SegTK21>>, TotalFare("USD", 500))
ItinRtNoAmount == RoundTrip(4, <<SegIA101>>, <<SegTK21>>, TotalFare("USD", NoAmount))
ItinRtNoBack == RoundTrip(5, <<SegIA101>>, <<>>, TotalFare("USD", 480))
ItinRtBar == RoundTrip(6, <<SegIA101>>, <<SegBarDep>>, TotalFare("USD", 410))

OutboundAnswers ==
    {SearchAnswer(AsJsonList(<<ItinIA, ItinTK>>)),
     SearchAnswer(AsJsonList(<<ItinNoSegments, ItinIASpelled, ItinSegmentsMissing, ItinTK>>)),
     SearchAnswer(AsJsonList(<<ItinNoOptions, ItinIA, ItinIASpelled>>)),
     SearchAnswer(AsJsonDict(ItinTK)),
     SearchAnswer(AsJsonList(<<ItinNoSegments>>)),
     SearchAnswer(JsonMissing)}

ReturnAnswers ==
    {SearchAnswer(AsJsonList(<<ItinBackIA, ItinBackTK>>)),
     SearchAnswer(AsJsonList(<<ItinBackTK, ItinNoSegments, ItinBackIASpelled>>)),
     SearchAnswer(AsJsonList(<<ItinBackBarDep, ItinBackBarArr>>)),
     SearchAnswer(AsJsonList(<<>>))}

CombinedAnswers ==
    {SearchAnswer(AsJsonList(<<ItinRtIA, ItinRtNoAmount>>)),
     SearchAnswer(AsJsonList(<<ItinRtIA, ItinRtIACheaper>>)),
     SearchAnswer(AsJsonList(<<ItinRtTK, ItinRtNoBack, ItinIA>>)),
     SearchAnswer(AsJsonDict(ItinRtBar)),
     SearchAnswer(JsonMissing)}

\* The search requests: return_date "" stands for None or "".
AvailabilityRequests ==
    [from_ : {"BGW"}, to : {"DXB"}, date : {"2026-02-02"},
     trip_type : {"oneway", "roundtrip"}, return_date : {"", "2026-02-09"}]

\* The stored policies a search is served under.
SearchPermEntries ==
    {PermMissing, [DEFAULT_PERMISSIONS EXCEPT !.blocked_suppliers = {"OTA"}],
     [DEFAULT_PERMISSIONS EXCEPT !.availability_enabled = FALSE]} \cup
    {[DEFAULT_PERMISSIONS EXCEPT !.filters_enabled = f, !.blocked_airlines = b] :
        f \in BOOLEAN, b \in {<<>>, <<"IA">>, <<"", " ia ">>, <<"TK", "ia">>, <<" ">>}}

(***************************************************************************)
(* Search: availability()                                                  *)
(***************************************************************************)

NoSearchRequest == [from_ |-> "", to |-> "", date |-> "", trip_type |-> "", return_date |-> ""]
NoSearchResponse ==
    [http |-> 0, error |-> "", disabled |-> FALSE, meta |-> [echoToken |-> None],
     results |-> <<>>, results_return |-> <<>>]
SearchError(code, text) == [NoSearchResponse EXCEPT !.http = code, !.error = text]
SearchDisabled == [NoSearchResponse EXCEPT !.http = 200, !.disabled = TRUE]

\* One entry of the payload's OriginDestinationInformation
OdiLeg(date, origin, destination) == [date |-> date, origin |-> origin, destination |-> destination]
OutboundPayload(req) == <<OdiLeg(req.date, req.from_, req.to)>>
ReturnPayload(req) == <<OdiLeg(req.return_date, req.to, req.from_)>>
CombinedPayload(req) ==
    <<OdiLeg(req.date, req.from_, req.to), OdiLeg(req.return_date, req.to, req.from_)>>

\* Mutant: the return date is not looked at.
WantsReturnIgnoringDate(req) == req.trip_type = "roundtrip"

\* req.trip_type == "roundtrip" and req.return_date
WantsReturn(req) == req.trip_type = "roundtrip" /\ req.return_date /= ""

\* JSONResponse({"meta": meta, "results": results, "results_return": results_return})
SearchResponse(pol, meta, rs, rr) ==
    [NoSearchResponse EXCEPT !.http = 200, !.meta = meta,
                             !.results = ApplyFilters(pol, rs, "results"),
                             !.results_return = ApplyFilters(pol, rr, "results_return")]

SearchNotConfigured(req) ==
    /\ spc = "idle"
    /\ ~configured
    /\ spc' = "done"
    /\ sreq' = req
    /\ sresp' = SearchError(500, "WINGS credentials not configured.")
    /\ UNCHANGED <<spol, searchCalls, resp_out, resp_ret, resp_rt, results_out, results_return, rt_map>>
    /\ UNCHANGED <<bookVars, seatVars, policyVars, portalVars>>

SearchProviderDisabled(req) ==
    /\ spc = "idle"
    /\ configured
    /\ ~_ota_policy(perm, now).availability
    /\ spc' = "done"
    /\ sreq' = req
    /\ spol' = _ota_policy(perm, now)
    /\ sresp' = SearchDisabled
    /\ UNCHANGED <<searchCalls, resp_out, resp_ret, resp_rt, results_out, results_return, rt_map>>
    /\ UNCHANGED <<bookVars, seatVars, policyVars, portalVars>>

\* Mutant: the outbound search is made whatever the policy's availability.
SearchStartIgnoringAvailability(req) ==
    /\ spc = "idle"
    /\ configured
    /\ spc' = "outbound"
    /\ sreq' = req
    /\ spol' = _ota_policy(perm, now)
    /\ searchCalls' = <<OutboundPayload(req)>>
    /\ UNCHANGED <<resp_out, resp_ret, resp_rt, results_out, results_return, rt_map, sresp>>
    /\ UNCHANGED <<bookVars, seatVars, policyVars, portalVars>>

\* Up to the first await: client.air_low_fare_search(payload)
SearchStart(req) ==
    /\ spc = "idle"
    /\ configured
    /\ _ota_policy(perm, now).availability
    /\ spc' = "outbound"
    /\ sreq' = req
    /\ spol' = _ota_policy(perm, now)
    /\ searchCalls' = <<OutboundPayload(req)>>
    /\ UNCHANGED <<resp_out, resp_ret, resp_rt, results_out, results_return, rt_map, sresp>>
    /\ UNCHANGED <<bookVars, seatVars, policyVars, portalVars>>

\* The outbound search answers: normalize, then either the return search
\* is awaited or the response is built.
OutboundAnswered(resp) ==
    /\ spc = "outbound"
    /\ resp_out' = resp
    /\ LET norm_out == normalize_priced_itineraries(resp)
       IN  /\ results_out' = norm_out.results_outbound
           /\ IF WantsReturn(sreq)
              THEN /\ spc' = "return"
                   /\ searchCalls' = Append(searchCalls, ReturnPayload(sreq))
                   /\ UNCHANGED sresp
              ELSE /\ spc' = "done"
                   /\ sresp' = SearchResponse(spol, norm_out.meta, norm_out.results_outbound, <<>>)
                   /\ UNCHANGED searchCalls
    /\ UNCHANGED <<sreq, spol, resp_ret, resp_rt, results_return, rt_map>>
    /\ UNCHANGED <<bookVars, seatVars, policyVars, portalVars>>

\* The return search answers: normalize, then _roundtrip_price_map() awaits
\* the combined search.
ReturnAnswered(resp) ==
    /\ spc = "return"
    /\ resp_ret' = resp
    /\ results_return' = normalize_priced_itineraries(resp).results_outbound
    /\ spc' = "combined"
    /\ searchCalls' = Append(searchCalls, CombinedPayload(sreq))
    /\ UNCHANGED <<sreq, spol, resp_out, resp_rt, results_out, rt_map, sresp>>
    /\ UNCHANGED <<bookVars, seatVars, policyVars, portalVars>>

\* The combined search answers: the price map, the merge, the filter.
CombinedAnswered(resp) ==
    /\ spc = "combined"
    /\ resp_rt' = resp
    /\ LET map == _roundtrip_price_map(resp)
           merged == EnrichAll(results_return, map)
       IN  /\ rt_map' = map
           /\ results_return' = merged
           /\ sresp' = SearchResponse(spol, normalize_priced_itineraries(resp_out).meta,
                                      results_out, merged)
    /\ spc' = "done"
    /\ UNCHANGED <<sreq, spol, searchCalls, resp_out, resp_ret, results_out>>
    /\ UNCHANGED <<bookVars, seatVars, policyVars, portalVars>>

\* Mutant: a failure of the combined search is swallowed and the one-way
\* results are returned without round-trip totals.
SearchCallFailsCombinedSwallowed ==
    /\ spc \in {"outbound", "return", "combined"}
    /\ resp_out' = IF spc = "outbound" THEN FailedAnswer ELSE resp_out
    /\ resp_ret' = IF spc = "return" THEN FailedAnswer ELSE resp_ret
    /\ resp_rt' = IF spc = "combined" THEN FailedAnswer ELSE resp_rt
    /\ spc' = "done"
    /\ sresp' = IF spc = "combined"
                THEN SearchResponse(spol, normalize_priced_itineraries(resp_out).meta,
                                    results_out, results_return)
                ELSE SearchError(500, "str(e)")
    /\ UNCHANGED <<sreq, spol, searchCalls, results_out, results_return, rt_map>>
    /\ UNCHANGED <<bookVars, seatVars, policyVars, portalVars>>

\* The awaited search raises (raise_for_status, a transport error, a body
\* that is not JSON): `except Exception` answers 500 with str(e).
SearchCallFails ==
    /\ spc \in {"outbound", "return", "combined"}
    /\ resp_out' = IF spc = "outbound" THEN FailedAnswer ELSE resp_out
    /\ resp_ret' = IF spc = "return" THEN FailedAnswer ELSE resp_ret
    /\ resp_rt' = IF spc = "combined" THEN FailedAnswer ELSE resp_rt
    /\ spc' = "done"
    /\ sresp' = SearchError(500, "str(e)")
    /\ UNCHANGED <<sreq, spol, searchCalls, results_out, results_return, rt_map>>
    /\ UNCHANGED <<bookVars, seatVars, policyVars, portalVars>>

SearchNext ==
    \/ spc = "idle" /\ \E req \in AvailabilityRequests : SearchNotConfigured(req)
    \/ spc = "idle" /\ \E req \in AvailabilityRequests : SearchProviderDisabled(req)
    \/ spc = "idle" /\ \E req \in AvailabilityRequests : SearchStart(req)
    \/ spc = "outbound" /\ \E resp \in OutboundAnswers : OutboundAnswered(resp)
    \/ spc = "return" /\ \E resp \in ReturnAnswers : ReturnAnswered(resp)
    \/ spc = "combined" /\ \E resp \in CombinedAnswers : CombinedAnswered(resp)
    \/ SearchCallFails

SearchQuiet ==
    /\ spc = "idle"
    /\ sreq = NoSearchRequest
    /\ spol = NoPolicy
    /\ searchCalls = <<>>
    /\ resp_out = NoAnswer
    /\ resp_ret = NoAnswer
    /\ resp_rt = NoAnswer
    /\ results_out = <<>>
    /\ results_return = <<>>
    /\ rt_map = NoPriceMap
    /\ sresp = NoSearchResponse

(***************************************************************************)
(* Policy queries: _ota_policy() and GET /api/permissions/status           *)
(***************************************************************************)

HHMM(h, m) == [hh |-> h, mm |-> m]
Rule(days, start, end) == [days |-> days, start |-> start, end |-> end]
Weekdays == 0..4

ScheduleOffice == [enabled |-> TRUE, rules |-> <<Rule(Weekdays, HHMM(9, 0), HHMM(18, 0))>>]
ScheduleWeekend ==
    [enabled |-> TRUE,
     rules |-> <<Rule({5}, HHMM(10, 0), HHMM(12, 0)), Rule({6}, HHMM(22, 0), HHMM(2, 0))>>]
\* a rule whose start does not parse, before one that does
ScheduleBadStart ==
    [enabled |-> TRUE,
     rules |-> <<Rule(AllDays, HHMM(24, 0), HHMM(23, 59)), Rule({0}, HHMM(12, 0), HHMM(12, 0))>>]
ScheduleBadOnly == [enabled |-> TRUE, rules |-> <<Rule(AllDays, HHMM(9, 0), HHMM(9, 60))>>]
ScheduleOffWithoutRules == [enabled |-> FALSE, rules |-> <<>>]
PolicySchedules ==
    Schedules \cup {ScheduleOffice, ScheduleWeekend, ScheduleBadStart, ScheduleBadOnly,
                    ScheduleOffWithoutRules}

PolicyEntries ==
    {PermMissing} \cup
    [present : {TRUE}, availability_enabled : BOOLEAN, blocked_suppliers : {{}, {"OTA"}, {"TBO"}},
     ticketing_mode : {"full", "", "availability_only"}, ticketing_schedule : PolicySchedules,
     filters_enabled : {TRUE}, blocked_airlines : {<<>>}]

\* Seconds of the day of the instants the queries are made at.
TimesOfDay ==
    {0, 3600, 2 * 3600, 2 * 3600 + 30, 9 * 3600, Noon, 18 * 3600, 22 * 3600 - 1, 22 * 3600, LateEvening}
PolicyInstants == [wd : {0, 5, 6}, t : TimesOfDay]

\* A concrete window: start and end in seconds counted from the midnight that
\* begins the day of the query (datetime.combine of a date and a time of day).
DaySeconds == 86400
Window(start, end) == [start |-> start, end |-> end]
NoWindow == Window(-1, -1)
ScanOffsets == 0..7

\* windows.append((start_dt, end_dt)) for offset in range(0, 8), one rule
RECURSIVE RuleWindows(_, _, _, _, _)
RuleWindows(days, st, en, at, offset) ==
    IF offset \notin ScanOffsets THEN <<>>
    ELSE (IF (at.wd + offset) % 7 \notin days THEN <<>>
          ELSE << Window(offset * DaySeconds + st,
                         (IF en >= st THEN offset ELSE offset + 1) * DaySeconds + en) >>)
         \o RuleWindows(days, st, en, at, offset + 1)

RECURSIVE WindowsOfRules(_, _, _)
WindowsOfRules(rules, i, at) ==
    IF i > Len(rules) THEN <<>>
    ELSE LET r  == rules[i]
             st == _parse_hhmm(r.start)
             en == _parse_hhmm(r.end)
         IN  (IF st = NoTime \/ en = NoTime THEN <<>>
              ELSE RuleWindows(r.days, st, en, at, 0))
             \o WindowsOfRules(rules, i + 1, at)

\* windows.sort(key=lambda x: x[0]): stable, by start
RECURSIVE InsertByStart(_, _)
InsertByStart(w, sorted) ==
    IF sorted = <<>> THEN <<w>>
    ELSE IF Head(sorted).start <= w.start THEN <<Head(sorted)>> \o InsertByStart(w, Tail(sorted))
    ELSE <<w>> \o sorted
RECURSIVE SortByStart(_, _)
SortByStart(ws, acc) ==
    IF ws = <<>> THEN acc ELSE SortByStart(Tail(ws), InsertByStart(Head(ws), acc))

\* for w in windows: if w[0] <= now <= w[1]: current = w; break
RECURSIVE FirstContaining(_, _)
FirstContaining(ws, t) ==
    IF ws = <<>> THEN NoWindow
    ELSE IF Head(ws).start <= t /\ t <= Head(ws).end THEN Head(ws)
    ELSE FirstContaining(Tail(ws), t)
\* for w in windows: if w[0] > bound: next_win = w; break
RECURSIVE FirstStartingAfter(_, _)
FirstStartingAfter(ws, bound) ==
    IF ws = <<>> THEN NoWindow
    ELSE IF Head(ws).start > bound THEN Head(ws)
    ELSE FirstStartingAfter(Tail(ws), bound)

NoScheduleInfo == [enabled |-> FALSE, current_window |-> NoWindow, next_window |-> NoWindow]

_compute_schedule_windows(schedule, at) ==
    LET windows == SortByStart(WindowsOfRules(schedule.rules, 1, at), <<>>)
        current == FirstContaining(windows, at.t)
        next_win == IF current /= NoWindow THEN FirstStartingAfter(windows, current.end)
                    ELSE FirstStartingAfter(windows, at.t)
    IN  [enabled |-> schedule.enabled, current_window |-> current, next_window |-> next_win]

NoStatus ==
    [asked |-> FALSE, listed |-> FALSE, availability |-> FALSE, ticketing_mode |-> "",
     ticketing_schedule_ok |-> FALSE, ticketing_effective |-> FALSE,
     schedule |-> NoScheduleInfo]

\* The "OTA" entry of the status: not listed when the provider entry is missing.
permissions_status(p, at) ==
    IF ~p.present THEN [NoStatus EXCEPT !.asked = TRUE]
    ELSE LET availability == p.availability_enabled /\ ("OTA" \notin p.blocked_suppliers)
             ticketing_mode == TicketingModeNorm(p.ticketing_mode)
             schedule_ok == _ticketing_schedule_allows(p.ticketing_schedule, at)
         IN  [asked |-> TRUE, listed |-> TRUE, availability |-> availability,
              ticketing_mode |-> IF ticketing_mode = "full" THEN "full" ELSE "availability_only",
              ticketing_schedule_ok |-> schedule_ok,
              ticketing_effective |-> availability /\ ticketing_mode = "full" /\ schedule_ok,
              schedule |-> _compute_schedule_windows(p.ticketing_schedule, at)]

\* A handler calls _ota_policy().
PolicyRead ==
    /\ ota_pol = NoPolicy
    /\ ota_pol' = _ota_policy(perm, now)
    /\ UNCHANGED <<status_out, bookVars, seatVars, searchVars, portalVars>>

\* GET /api/permissions/status
PermissionsStatus ==
    /\ ~status_out.asked
    /\ status_out' = permissions_status(perm, now)
    /\ UNCHANGED <<ota_pol, bookVars, seatVars, searchVars, portalVars>>

PolicyNext == PolicyRead \/ PermissionsStatus

PolicyQuiet ==
    /\ ota_pol = NoPolicy
    /\ status_out = NoStatus

(***************************************************************************)
(* Portal: /issue-ticket with payment and /pending/{id}/complete           *)
(***************************************************************************)

\* The amount under the payload's first amount key: a JSON number, or a
\* text with thousands separators such as "1,250"; given is FALSE when no
\* amount key is present.
NumberAmount(n) == [given |-> TRUE, grouped |-> FALSE, value |-> n]
GroupedAmount(n) == [given |-> TRUE, grouped |-> TRUE, value |-> n]
AmountMissing == [given |-> FALSE, grouped |-> FALSE, value |-> 0]

\* issue_ticket()._parse_amount: digits and the first dot are kept, commas
\* dropped; None when there is no amount.
NoTotal == -1
_parse_amount(v) == IF v.given THEN v.value ELSE NoTotal

\* _extract_price: float(_to_number(v, 0)); int("1,250") raises and
\* _to_number returns its default 0.  None (NoTotal) without an amount key.
_extract_price(v) == IF ~v.given THEN NoTotal ELSE IF v.grouped THEN 0 ELSE v.value

\* A transaction as _add_transaction stores it; payment_method is
\* details.payment_method.
Transaction(status, pending_id, price, method) ==
    [status |-> status, pnr |-> "", booking_code |-> "", pending_id |-> pending_id,
     price |-> price, payment_method |-> method]

\* One change of a balance: which handler made it, for which pending id
\* ("" for a booking that was never pending), on which balance, how much.
Debit(by, pending_id, kind, amount) ==
    [by |-> by, pending_id |-> pending_id, kind |-> kind, amount |-> amount]

NoPortalRequest == [op |-> "", pending_id |-> "", method |-> "", amount |-> AmountMissing]
\* found is history: whether pending_complete found the id (it answers the
\* same redirect either way)
NoPortalResponse ==
    [http |-> 0, status |-> "", error |-> "", deducted |-> FALSE, pending_id |-> "", found |-> FALSE]
PortalError(code, text) == [NoPortalResponse EXCEPT !.http = code, !.status = "error", !.error = text]

\* uuid.uuid4().hex: a value no pending item or transaction carries yet
PendingIdPool == {"a1f0", "b2e9"}
UsedPendingIds ==
    {pending[i] : i \in 1..Len(pending)} \cup {transactions[i].pending_id : i \in 1..Len(transactions)}

\* Portal requests handled in one behaviour
MaxPortalRequests == 3

TicketPayloads ==
    [method : {"cash", "credit", "card"},
     amount : {NumberAmount(250), GroupedAmount(1250), AmountMissing}]
\* What POST /api/book answers: a booking, a Pending outcome, an error
\* status, or no answer at all (requests.post raises).
BackendAnswers == {"success", "pending", "error", "unreachable"}

PortalHandled(req, resp) ==
    /\ portal_n' = portal_n + 1
    /\ portal_req' = req
    /\ portal_resp' = resp

\* Whether the account may use the ticket's provider
\* (_allowed_provider_ids_for_request against the payload's provider id).
ProviderAccess == {"allowed", "provider_disabled"}

\* POST /issue-ticket with payment information (app.py 3025-3437)
IssueTicket(ticket, access, answer, pid) ==
    /\ portal_n < MaxPortalRequests
    /\ LET method == ticket.method
           total == _parse_amount(ticket.amount)
           price == _extract_price(ticket.amount)
           req == [NoPortalRequest EXCEPT !.op = "issue_ticket", !.method = method,
                                          !.amount = ticket.amount]
           Refused(text) ==
               /\ PortalHandled(req, PortalError(400, text))
               /\ UNCHANGED <<credit, cash, pending, transactions, ledger, booked>>
       IN  IF access = "provider_disabled"
           THEN /\ pid \notin UsedPendingIds
                /\ pending' = <<pid>> \o pending
                /\ transactions' = <<Transaction("pending", pid, price, method)>> \o transactions
                /\ PortalHandled(req, [NoPortalResponse EXCEPT !.http = 202, !.status = "pending",
                                          !.pending_id = pid])
                /\ UNCHANGED <<credit, cash, ledger, booked>>
           ELSE IF total = NoTotal THEN Refused("Missing total amount for payment.")
           ELSE IF method = "cash" /\ cash < total THEN Refused("Insufficient cash.")
           ELSE IF method = "credit" /\ credit < total THEN Refused("Insufficient credit.")
           ELSE IF method \notin {"cash", "credit"} THEN Refused("Invalid payment method.")
           ELSE IF answer = "success"
           THEN /\ cash' = IF method = "cash" THEN cash - total ELSE cash
                /\ credit' = IF method = "credit" THEN credit - total ELSE credit
                /\ ledger' = Append(ledger, Debit("issue_ticket", "", method, total))
                /\ transactions' = <<Transaction("successful", "", price, method)>> \o transactions
                /\ PortalHandled(req, [NoPortalResponse EXCEPT !.http = 200, !.status = "success"])
                /\ UNCHANGED <<pending, booked>>
           ELSE IF answer = "pending"
           THEN /\ pid \notin UsedPendingIds
                /\ pending' = <<pid>> \o pending
                /\ transactions' = <<Transaction("pending", pid, price, method)>> \o transactions
                /\ credit' = IF method = "credit" THEN credit - total ELSE credit
                /\ ledger' = IF method = "credit"
                             THEN Append(ledger, Debit("issue_ticket", pid, "credit", total))
                             ELSE ledger
                /\ PortalHandled(req, [NoPortalResponse EXCEPT !.http = 202, !.status = "pending",
                                          !.deducted = (method = "credit"), !.pending_id = pid])
                /\ booked' = booked \cup {[pending_id |-> pid, method |-> method, total |-> total]}
                /\ UNCHANGED cash
           ELSE /\ PortalHandled(req, IF answer = "error" THEN PortalError(500, "backend")
                                      ELSE PortalError(502, "str(e)"))
                /\ UNCHANGED <<credit, cash, pending, transactions, ledger, booked>>
    /\ UNCHANGED <<bookVars, seatVars, searchVars, policyVars>>

\* the index of the first item with the id, 0 when there is none
RECURSIVE FirstIndex(_, _, _)
FirstIndex(ids, id, i) ==
    IF i > Len(ids) THEN 0 ELSE IF ids[i] = id THEN i ELSE FirstIndex(ids, id, i + 1)
PendingIdsOf(txs) == [i \in 1..Len(txs) |-> txs[i].pending_id]
RemoveAt(q, i) == SubSeq(q, 1, i - 1) \o SubSeq(q, i + 1, Len(q))

\* _update_transaction_by_pending_id: the first match only
UpdateTransaction(txs, pending_id, ticket_number, booking_code) ==
    LET i == FirstIndex(PendingIdsOf(txs), pending_id, 1)
    IN  IF pending_id = "" \/ i = 0 THEN txs
        ELSE [txs EXCEPT ![i] = [@ EXCEPT !.status = "successful", !.pnr = ticket_number,
                                          !.booking_code = booking_code]]

\* The balances after the deduction "upon manual completion" (3851-3881):
\* cash, credit and the ledger.
Deducted(pending_id) ==
    LET i  == FirstIndex(PendingIdsOf(transactions), pending_id, 1)
        pm == IF i = 0 THEN "" ELSE transactions[i].payment_method
        amount == IF i = 0 \/ transactions[i].price = NoTotal THEN 0 ELSE transactions[i].price
    IN  IF pm \in {"cash", "credit"} /\ amount > 0
        THEN [cash |-> IF pm = "cash" THEN cash - amount ELSE cash,
              credit |-> IF pm = "credit" THEN credit - amount ELSE credit,
              ledger |-> Append(ledger, Debit("pending_complete", pending_id, pm, amount))]
        ELSE [cash |-> cash, credit |-> credit, ledger |-> ledger]

\* Mutant: the completion does not look the id up in the pending list.
CompleteFoundAlways(pending_id) == TRUE

\* found_idx is not None (3817-3824)
CompleteFound(pending_id) == FirstIndex(pending, pending_id, 1) /= 0

\* POST /pending/{pending_id}/complete (3805-3896)
PendingComplete(pending_id, ticket_number, booking_code) ==
    /\ portal_n < MaxPortalRequests
    /\ LET req == [NoPortalRequest EXCEPT !.op = "pending_complete", !.pending_id = pending_id]
           found_idx == FirstIndex(pending, pending_id, 1)
       IN  /\ PortalHandled(req, [NoPortalResponse EXCEPT !.http = 303,
                                                           !.found = CompleteFound(pending_id)])
           /\ IF ~CompleteFound(pending_id)
              THEN UNCHANGED <<credit, cash, pending, transactions, ledger, booked>>
              ELSE /\ pending' = RemoveAt(pending, found_idx)
                   /\ cash' = Deducted(pending_id).cash
                   /\ credit' = Deducted(pending_id).credit
                   /\ ledger' = Deducted(pending_id).ledger
                   /\ transactions' = UpdateTransaction(transactions, pending_id,
                                                        ticket_number, booking_code)
                   /\ UNCHANGED booked
    /\ UNCHANGED <<bookVars, seatVars, searchVars, policyVars>>

PortalNext ==
    \/ \E ticket \in TicketPayloads, access \in ProviderAccess, answer \in BackendAnswers,
          pid \in PendingIdPool :
          IssueTicket(ticket, access, answer, pid)
    \/ \E pending_id \in PendingIdPool, ticket_number \in {"", "TKT-1"} :
          PendingComplete(pending_id, ticket_number, "")

PortalQuiet ==
    /\ credit = 0
    /\ cash = 0
    /\ pending = <<>>
    /\ transactions = <<>>
    /\ ledger = <<>>
    /\ booked = {}
    /\ portal_req = NoPortalRequest
    /\ portal_resp = NoPortalResponse
    /\ portal_n = 0

(***************************************************************************)
(* Specifications, one per component                                       *)
(***************************************************************************)

\* No Book request in progress.
BookIdle ==
    /\ bpc = "idle"
    /\ breq = NoRequest
    /\ bpol = NoPolicy
    /\ airbook_xml = NoXml
    /\ airBookCalls = 0
    /\ upstream = NoUpstream
    /\ outcome = NoResponse

InitBook == BookInit /\ SeatsQuiet /\ SearchQuiet /\ PolicyQuiet /\ PortalQuiet
SpecBook == InitBook /\ [][BookNext]_vars

InitSeats == BookQuiet /\ SeatsQuiet /\ SearchQuiet /\ PolicyQuiet /\ PortalQuiet
SpecSeats == InitSeats /\ [][SeatsNext]_vars

InitSearch ==
    /\ perm \in SearchPermEntries
    /\ now = [wd |-> 0, t |-> Noon]
    /\ configured \in (IF perm \in {DEFAULT_PERMISSIONS, PermMissing} THEN BOOLEAN ELSE {TRUE})
    /\ BookIdle
    /\ SeatsQuiet
    /\ SearchQuiet
    /\ PolicyQuiet
    /\ PortalQuiet
SpecSearch == InitSearch /\ [][SearchNext]_vars

InitPolicy ==
    /\ perm \in PolicyEntries
    /\ now \in PolicyInstants
    /\ configured = TRUE
    /\ BookIdle
    /\ SeatsQuiet
    /\ SearchQuiet
    /\ PolicyQuiet
    /\ PortalQuiet
SpecPolicy == InitPolicy /\ [][PolicyNext]_vars

\* The billing user's balances when the first request arrives.
InitPortal ==
    /\ credit \in {300, 3000}
    /\ cash = 300
    /\ pending = <<>>
    /\ transactions = <<>>
    /\ ledger = <<>>
    /\ booked = {}
    /\ portal_req = NoPortalRequest
    /\ portal_resp = NoPortalResponse
    /\ portal_n = 0
    /\ BookQuiet
    /\ SeatsQuiet
    /\ SearchQuiet
    /\ PolicyQuiet
SpecPortal == InitPortal /\ [][PortalNext]_vars

Init == BookInit /\ SeatsQuiet /\ SearchQuiet /\ PolicyQuiet /\ PortalQuiet
Next == BookNext \/ SeatsNext \/ SearchNext \/ PolicyNext \/ PortalNext
Spec == Init /\ [][Next]_vars

(***************************************************************************)
(* Claims about Book                                                       *)
(***************************************************************************)

\* The response shapes a caller tells apart.
IsPending(o) == o.pending /\ o.status = "pending"
IsSuccess(o) == o.status = "success" /\ ~o.pending /\ o.http = 200
IsError(o) == o.http >= 400 /\ ~o.pending /\ o.status = ""

\* The stored policy and the clock, read without _ota_policy: the switch is
\* on, the provider is not a blocked supplier, the mode is full (the default
\* when empty) and the schedule, when enabled, is open.
StoreEffective ==
    /\ perm.present
    /\ perm.availability_enabled
    /\ "OTA" \notin perm.blocked_suppliers
    /\ perm.ticketing_mode \in {"full", ""}
    /\ _ticketing_schedule_allows(perm.ticketing_schedule, now)

\* The client input errors of a request, read without InputError.
ClientInputBad(req) ==
    \/ ~req.outbound_itinerary_json.valid
    \/ req.return_itinerary_json.given /\ ~req.return_itinerary_json.valid
    \/ req.passengers = 0

\* No vendor block under any of the keys the lookup tries.
NoVendorAnywhere(pi) ==
    /\ ~pi.ticketing.dict
    /\ ~pi.ticketingVendor.dict
    /\ ~pi.TicketingVendor.dict
    /\ ~(pi.ticketingInfo.dict /\ (pi.ticketingInfo.ticketingVendor.dict \/ pi.ticketingInfo.TicketingVendor.dict))
    /\ ~(pi.TicketingInfo.dict /\ (pi.TicketingInfo.ticketingVendor.dict \/ pi.TicketingInfo.TicketingVendor.dict))

HasDictEntry(q) == \E i \in 1..Len(q) : q[i].dict

\* No outbound segment under any of the shapes the extraction tries.
NoOutboundSegmentsAnywhere(pi) ==
    /\ pi.airItinerary = <<>> \/ ~HasDictEntry(pi.airItinerary[1])
    /\ pi.AirItinerary = <<>> \/ ~HasDictEntry(pi.AirItinerary[1])
    /\ ~pi.segments.list \/ ~HasDictEntry(pi.segments.items)

Served == bpc = "done"
OutboundPi == breq.outbound_itinerary_json.val

\* C1: on a configured gateway, whenever the stored policy is not
\* ticketing-effective when the Book request is served (switch off, blocked
\* supplier, entry missing, availability_only, or schedule closed), the
\* response is a Pending outcome and no AirBook call was made.
C1_NotEffectiveIsPending ==
    (Served /\ configured /\ ~StoreEffective) => (IsPending(outcome) /\ airBookCalls = 0)

ManualCompletionReasons == {ReasonUpstream, ReasonFailed}

\* C2: one Book request issues at most one AirBook call; when that call
\* fails (non-2xx status or transport error) the response is Pending with a
\* "Manual completion required." reason, not Success and not an error, and
\* the call was made exactly once.
C2_NoRetryFailureIsPending ==
    /\ airBookCalls <= 1
    /\ (upstream.kind /= "none") => airBookCalls = 1
    /\ (Served /\ upstream.kind \in {"http_error", "transport_error"}) =>
          /\ IsPending(outcome)
          /\ outcome.reason \in ManualCompletionReasons
          /\ outcome.http = 202
          /\ ~IsSuccess(outcome)
          /\ ~IsError(outcome)
C2_Witness ==
    /\ Served
    /\ upstream.kind = "http_error"
    /\ upstream.code = 503
    /\ IsPending(outcome)
    /\ airBookCalls = 1

\* C3: with the policy ticketing-effective and the client input well formed,
\* a request whose outbound itinerary has no discoverable vendor, or no
\* outbound segments, is answered with an error and never with Pending.
C3_BuildRejectionIsError ==
    (/\ Served /\ configured /\ StoreEffective /\ ~ClientInputBad(breq)
     /\ OutboundPi.kind = "dict"
     /\ (NoVendorAnywhere(OutboundPi) \/ NoOutboundSegmentsAnywhere(OutboundPi)))
    => (IsError(outcome) /\ ~IsPending(outcome))

\* C4: a Book request whose outbound itinerary has no segments, and
\* separately one whose outbound itinerary has no vendor descriptor under
\* any lookup path, never causes an AirBook call.
C4_NoCallWithoutSegmentsOrVendor ==
    (/\ bpc /= "idle" /\ breq.outbound_itinerary_json.valid
     /\ (NoOutboundSegmentsAnywhere(OutboundPi) \/ NoVendorAnywhere(OutboundPi)))
    => (airBookCalls = 0 /\ upstream.kind = "none")
C4_Witness ==
    /\ Served /\ configured /\ StoreEffective /\ ~ClientInputBad(breq)
    /\ OutboundPi.kind = "dict"
    /\ ~NoVendorAnywhere(OutboundPi)
    /\ NoOutboundSegmentsAnywhere(OutboundPi)
    /\ airBookCalls = 0

\* C5 as stated: a Book request with client input errors never becomes
\* Pending and makes no upstream call, whatever the policy state.
C5_InputErrorNeverPending ==
    (Served /\ ClientInputBad(breq)) => (~IsPending(outcome) /\ airBookCalls = 0)

\* C5 amended: a Book request with client input errors never makes an
\* upstream call, and when the policy is ticketing-effective (on a configured
\* gateway) it is rejected with a 400 error and is not Pending.
C5_InputErrorRejectedWhenEffective ==
    (bpc /= "idle" /\ ClientInputBad(breq)) =>
        /\ airBookCalls = 0
        /\ Served
        /\ (configured /\ StoreEffective) =>
              (IsError(outcome) /\ outcome.http = 400 /\ ~IsPending(outcome))
C5_Witness ==
    /\ Served /\ configured /\ StoreEffective
    /\ breq.outbound_itinerary_json.valid
    /\ breq.passengers = 0
    /\ outcome.http = 400
    /\ airBookCalls = 0

\* C6: every Pending response of Book, from the policy gate, from an
\* upstream HTTP error or from any other failure, carries a non-empty
\* pending id and a non-empty reason.
C6_PendingCarriesIdAndReason ==
    IsPending(outcome) =>
        /\ outcome.pending_id \notin {"", None}
        /\ outcome.reason \notin {"", None}
        /\ outcome.provider = "OTA"
C6_Witness ==
    /\ Served
    /\ IsPending(outcome)
    /\ upstream.kind = "none"
    /\ StoreEffective
    /\ outcome.pending_id = PendingId("0A1B2C3D4E")
    /\ outcome.reason = ReasonFailed

\* Neither the XML parse nor the pattern finds a reference in the body.
Unparseable(body) ==
    /\ ~body.wellformed
    /\ \A i \in 1..Len(body.refs) : body.refs[i].ID \in {"", None}

\* C7: when the AirBook call returns a 2xx status and its body is neither
\* well-formed XML nor matched by the fallback pattern, Book answers Success
\* with pnr and connectota_id absent, not Pending and not an error.
C7_UnparseableBodyIsSuccess ==
    (Served /\ upstream.kind = "returned" /\ Unparseable(upstream.body)) =>
        /\ IsSuccess(outcome)
        /\ outcome.pnr = None
        /\ outcome.connectota_id = None
C7_Witness ==
    /\ Served
    /\ upstream.kind = "returned"
    /\ upstream.code = 201
    /\ Unparseable(upstream.body)
    /\ Len(upstream.body.refs) = 2
    /\ IsSuccess(outcome)
    /\ outcome.pnr = None

(***************************************************************************)
(* Claims about seat estimation                                            *)
(***************************************************************************)

Estimating == epc /= "idle"
EstimateDone == epc = "done"
\* baseTotalPax is the total the estimator computes from the payload.
BaseTotalPax == base_total(payload)

\* The estimate the claim gives a key whose first absence was at pax_total p
\* (0: present in every probe).
FirstDisappearance(p) == IF p = 0 THEN 9 ELSE p - 1

RequestedOut == {k \in (IF efn = "keys" THEN keys_out ELSE Range(outbound)) : k /= ""}
RequestedIn == {k \in (IF efn = "keys" THEN keys_in ELSE Range(inbound)) : k /= ""}

\* The loop ran to its end: no early return and no failed probe.
ProbedToEnd ==
    /\ EstimateDone
    /\ ~probeFailed
    /\ BaseTotalPax < 8
    /\ efn = "keys" => (RequestedOut /= {} \/ RequestedIn /= {})

C8_Estimates ==
    /\ (Estimating /\ BaseTotalPax < 8) =>
          /\ DOMAIN seats_out = RequestedOut
          /\ DOMAIN seats_in = RequestedIn
    /\ epc = "probing" =>
          /\ \A k \in DOMAIN seats_out :
                seats_out[k] = (IF firstAbsentOut[k] = 0 THEN Unset ELSE firstAbsentOut[k] - 1)
          /\ \A k \in DOMAIN seats_in :
                seats_in[k] = (IF firstAbsentIn[k] = 0 THEN Unset ELSE firstAbsentIn[k] - 1)
    /\ ProbedToEnd =>
          /\ probes = 8 - BaseTotalPax
          /\ \A k \in RequestedOut : firstAbsentOut[k] \in {0} \cup ((BaseTotalPax + 1)..8)
          /\ \A k \in RequestedIn : firstAbsentIn[k] \in {0} \cup ((BaseTotalPax + 1)..8)
          /\ efn = "keys" =>
                /\ DOMAIN eret.out = RequestedOut
                /\ DOMAIN eret.in = RequestedIn
                /\ \A k \in RequestedOut : eret.out[k] = FirstDisappearance(firstAbsentOut[k])
                /\ \A k \in RequestedIn : eret.in[k] = FirstDisappearance(firstAbsentIn[k])
          /\ efn = "results" =>
                /\ \A i \in 1..Len(outbound) : outbound[i] /= "" =>
                      eret.outbound[i] = FirstDisappearance(firstAbsentOut[outbound[i]])
                /\ \A i \in 1..Len(inbound) : inbound[i] /= "" =>
                      eret.inbound[i] = FirstDisappearance(firstAbsentIn[inbound[i]])

C8_NoOverwrite ==
    /\ \A k \in DOMAIN seats_out : seats_out[k] /= Unset =>
          (k \in DOMAIN seats_out' /\ seats_out'[k] = seats_out[k])
    /\ \A k \in DOMAIN seats_in : seats_in[k] /= Unset =>
          (k \in DOMAIN seats_in' /\ seats_in'[k] = seats_in[k])

\* C8: with baseTotalPax < 8 and no failed probe, every requested key's
\* estimate is p - 1 for the smallest probed pax_total p in baseTotalPax+1..8
\* at which the key was absent from the filtered probe results, and 9 when it
\* was present in all of them; and no probe changes the estimate of a key
\* that an earlier probe resolved.
C8_FirstDisappearanceWins == []C8_Estimates /\ [][C8_NoOverwrite]_vars
C8_Witness ==
    /\ ProbedToEnd
    /\ efn = "keys"
    /\ BaseTotalPax = 2
    /\ RequestedOut = {"K1", "K2"}
    /\ firstAbsentOut["K1"] = 5
    /\ eret.out["K1"] = 4
    /\ firstAbsentOut["K2"] = 0
    /\ eret.out["K2"] = 9

\* C9: when baseTotalPax >= 8 the estimator issues no probe search and gives
\* every requested outbound and return key min(9, baseTotalPax).
C9_NoProbeAtMaxCheck ==
    (Estimating /\ BaseTotalPax >= 8) =>
        /\ EstimateDone
        /\ probes = 0
        /\ eret.returned
        /\ efn = "keys" =>
              /\ DOMAIN eret.out = RequestedOut
              /\ DOMAIN eret.in = RequestedIn
              /\ \A k \in RequestedOut : eret.out[k] = (IF BaseTotalPax >= 9 THEN 9 ELSE BaseTotalPax)
              /\ \A k \in RequestedIn : eret.in[k] = (IF BaseTotalPax >= 9 THEN 9 ELSE BaseTotalPax)
        /\ efn = "results" =>
              /\ \A i \in 1..Len(outbound) :
                    eret.outbound[i] = (IF BaseTotalPax >= 9 THEN 9 ELSE BaseTotalPax)
              /\ \A i \in 1..Len(inbound) :
                    eret.inbound[i] = (IF BaseTotalPax >= 9 THEN 9 ELSE BaseTotalPax)
C9_Witness ==
    /\ EstimateDone
    /\ efn = "keys"
    /\ BaseTotalPax = 8
    /\ probes = 0
    /\ RequestedOut = {"K1", "K2"}
    /\ RequestedIn = {"K1"}
    /\ eret.out["K2"] = 8
    /\ eret.in["K1"] = 8

\* C10: once a probe search fails the estimator issues no further probe and
\* returns empty results for both directions, also for keys that earlier
\* probes had resolved, and nothing is raised to the caller.
C10_FailedProbeReturnsEmpty ==
    probeFailed =>
        /\ EstimateDone
        /\ eret.returned
        /\ ~eret.raised
        /\ DOMAIN eret.out = {}
        /\ DOMAIN eret.in = {}
        /\ \A i \in 1..Len(eret.outbound) : eret.outbound[i] = Unset
        /\ \A i \in 1..Len(eret.inbound) : eret.inbound[i] = Unset
        /\ probes = pax_total - BaseTotalPax
C10_Witness ==
    /\ probeFailed
    /\ efn = "keys"
    /\ probes = 3
    /\ "K1" \in DOMAIN seats_out
    /\ seats_out["K1"] /= Unset
    /\ DOMAIN eret.out = {}

(***************************************************************************)
(* Claims about Search                                                     *)
(***************************************************************************)

SearchServed == spc = "done" /\ sresp.http = 200 /\ ~sresp.disabled

\* The priced itineraries of an upstream answer that normalize.py keeps,
\* each with its position in the answer.
Answered(resp) == IF resp.kind = "json" THEN ListOf(resp.pricedItinerary) ELSE <<>>
KeptPositions(resp) ==
    {i \in 1..Len(Answered(resp)) : FirstOptionSegments(Answered(resp)[i]) /= <<>>}
NormalizedAt(resp, i) ==
    NormalizedItinerary(Answered(resp)[i], i, FirstOptionSegments(Answered(resp)[i]))

\* dep|arr|depDateTime|arrDateTime|airlineCode|flightNumber of a raw segment
ItineraryKey(seg) ==
    Join6(seg.departureAirport, seg.arrivalAirport, seg.departureDateTime,
          seg.arrivalDateTime, Or2(seg.operatingAirline, Or2(seg.marketingAirline, "")),
          seg.flightNumber)

\* The reconciler's two signatures of one itinerary agree: the raw first
\* segment's and the normalized itinerary's.
ReconcilerKeysAgree ==
    \A resp \in {resp_out, resp_ret} : \A i \in KeptPositions(resp) :
        _seg_sig(FirstOptionSegments(Answered(resp)[i])[1]) = _norm_sig_from_result(NormalizedAt(resp, i))

\* C11: for one and the same itinerary the reconciler's key of the raw
\* first segment (_seg_sig), the reconciler's key of the normalized itinerary
\* (_norm_sig_from_result) and the seat estimator's key (_flight_key) are the
\* same value, dep|arr|depDateTime|arrDateTime|airlineCode|flightNumber of
\* the itinerary's first segment.
C11_OneKeyInEveryComponent ==
    \A resp \in {resp_out, resp_ret} : \A i \in KeptPositions(resp) :
        LET seg == FirstOptionSegments(Answered(resp)[i])[1]
        IN  /\ _seg_sig(seg) = ItineraryKey(seg)
            /\ _norm_sig_from_result(NormalizedAt(resp, i)) = ItineraryKey(seg)
            /\ _flight_key(NormalizedAt(resp, i)) = ItineraryKey(seg)

\* The normalized itineraries the handler holds.
HeldResults == Range(results_out) \cup Range(results_return)

\* The six components of a first segment as normalize.py emitted them, and
\* in the spelling the signature uses.
Components(r) ==
    LET s0 == FirstSegment(r)
    IN  <<s0.dep, s0.arr, s0.dep_dt, s0.arr_dt, s0.airline, s0.flight>>
Canonical(r) ==
    LET s0 == FirstSegment(r)
    IN  <<Upper(s0.dep), Upper(s0.arr), Strip(s0.dep_dt), Strip(s0.arr_dt),
          Upper(s0.airline), Strip(s0.flight)>>
ContainsSeparator(x) == x \in {"DXB|BGW", "BGW|"}
SeparatorFree(r) == \A i \in 1..6 : ~ContainsSeparator(Components(r)[i])

Merged == spc = "done" /\ resp_rt.kind = "json"

\* The return-leg itineraries as normalized, before the merge.
ReturnBeforeMerge == normalize_priced_itineraries(resp_ret).results_outbound

HasNoRoundtripFields(r) ==
    /\ r.roundtrip_total_currency = None
    /\ r.roundtrip_total_amount = None
    /\ r.roundtrip_amount_raw = NoAmount

\* C13: after the merge, every return-leg itinerary whose key equals a key of
\* the round-trip price map carries that entry's currency, display amount and
\* raw amount as its roundtrip fields while its one-way total currency, amount
\* and raw amount (and everything else) are as normalized; every return-leg
\* itinerary whose key matches no entry, and every outbound itinerary, is as
\* normalized.
C13_MergeAddsRoundtripFieldsOnly ==
    Merged =>
        /\ Len(results_return) = Len(ReturnBeforeMerge)
        /\ \A i \in 1..Len(ReturnBeforeMerge) :
              LET before == ReturnBeforeMerge[i]
                  after == results_return[i]
                  sig == _norm_sig_from_result(before)
              IN  IF sig \in DOMAIN rt_map
                  THEN /\ after.roundtrip_total_currency = rt_map[sig].currency
                       /\ after.roundtrip_total_amount = rt_map[sig].amount
                       /\ after.roundtrip_amount_raw = rt_map[sig].amount_raw
                       /\ after.total_currency = before.total_currency
                       /\ after.total_amount = before.total_amount
                       /\ after.amount_raw = before.amount_raw
                       /\ after.segments = before.segments
                       /\ after.sequenceNumber = before.sequenceNumber
                       /\ after.ticketing = before.ticketing
                  ELSE after = before /\ HasNoRoundtripFields(after)
        /\ results_out = normalize_priced_itineraries(resp_out).results_outbound
        /\ \A r \in Range(results_out) : HasNoRoundtripFields(r)

\* A return itinerary that matches an entry priced differently from its
\* one-way total, next to one that matches none.
C13_Witness ==
    /\ Merged
    /\ \E i, j \in 1..Len(results_return) :
          /\ _norm_sig_from_result(results_return[i]) \in DOMAIN rt_map
          /\ results_return[i].roundtrip_amount_raw /= results_return[i].amount_raw
          /\ results_return[i].roundtrip_amount_raw /= NoAmount
          /\ _norm_sig_from_result(results_return[j]) \notin DOMAIN rt_map
    /\ results_out /= <<>>

\* The searches a request calls for, in order.
IsRoundTripWithReturnDate(req) == req.trip_type = "roundtrip" /\ req.return_date /= ""
ExpectedCalls(req) ==
    IF IsRoundTripWithReturnDate(req)
    THEN <<OutboundPayload(req), ReturnPayload(req), CombinedPayload(req)>>
    ELSE <<OutboundPayload(req)>>
IsPrefix(p, q) == Len(p) <= Len(q) /\ \A i \in 1..Len(p) : p[i] = q[i]

\* C14: the combined round-trip search is issued only when the trip type is
\* round-trip and a return date is present, and only after the outbound and
\* then the return search have been answered: the calls made so far are
\* always the first calls of (outbound) or (outbound, return, combined), and
\* a search answered with results has made exactly one call when it is
\* one-way and exactly three, in that order, when it is round-trip.
C14_CallsInOrder ==
    /\ spc /= "idle" => IsPrefix(searchCalls, ExpectedCalls(sreq))
    /\ Len(searchCalls) >= 2 => resp_out.kind = "json"
    /\ Len(searchCalls) >= 3 => resp_ret.kind = "json"
    /\ SearchServed => searchCalls = ExpectedCalls(sreq)

\* A round-trip search answered after its three calls.
C14_Witness ==
    /\ SearchServed
    /\ IsRoundTripWithReturnDate(sreq)
    /\ Len(searchCalls) = 3
    /\ searchCalls[3] = CombinedPayload(sreq)

(***************************************************************************)
(* Claims about the policy queries                                         *)
(***************************************************************************)

\* The schedule check as the policy states it.
ClockTime(v) == v.hh * 3600 + v.mm * 60
IsClockTime(v) == v.hh \in 0..23 /\ v.mm \in 0..59
RuleMatches(r, at) ==
    /\ at.wd \in r.days
    /\ IsClockTime(r.start) /\ IsClockTime(r.end)
    /\ IF ClockTime(r.start) <= ClockTime(r.end)
       THEN ClockTime(r.start) <= at.t /\ at.t <= ClockTime(r.end)
       ELSE at.t >= ClockTime(r.start) \/ at.t <= ClockTime(r.end)
ScheduleOk(schedule, at) ==
    ~schedule.enabled \/ \E i \in 1..Len(schedule.rules) : RuleMatches(schedule.rules[i], at)

PolicyWasRead == ota_pol /= NoPolicy /\ perm.present
StatusListed == status_out.asked /\ status_out.listed

\* C15: the schedule check is true with the schedule disabled; with it
\* enabled it is true exactly when some rule has the current weekday in its
\* days and the time of day within start..end (start <= end) or at or after
\* start or at or before end (start > end), and false when no rule matches.
\* The rule {days 0..6, 22:00-02:00} gives true at 23:30 and at 01:00 and
\* false at 12:00.
C15_ScheduleCheck ==
    /\ PolicyWasRead =>
          /\ ota_pol.ticketing_schedule_ok = ScheduleOk(perm.ticketing_schedule, now)
          /\ perm.ticketing_schedule = ScheduleOvernight =>
                /\ now.t \in {LateEvening, 3600} => ota_pol.ticketing_schedule_ok
                /\ now.t = Noon => ~ota_pol.ticketing_schedule_ok
    /\ StatusListed => status_out.ticketing_schedule_ok = ScheduleOk(perm.ticketing_schedule, now)

\* The overnight rule read at 01:00, allowing ticketing.
C15_Witness ==
    /\ PolicyWasRead
    /\ StatusListed
    /\ perm.ticketing_schedule = ScheduleOvernight
    /\ now.t = 3600
    /\ ota_pol.ticketing_schedule_ok

\* The stored policy in the claim's terms; a policy without a stored mode has
\* the default mode, "full".
AvailabilityOf(p) == p.present /\ p.availability_enabled /\ "OTA" \notin p.blocked_suppliers
ModeIsFull(p) == p.ticketing_mode \in {"full", ""}
EffectiveOf(p, at) == AvailabilityOf(p) /\ ModeIsFull(p) /\ ScheduleOk(p.ticketing_schedule, at)

FilterInForce == spol.filters_enabled /\ spol.blocked_airlines /= <<>>
EqualIgnoringCase(a, b) == Upper(a) = Upper(b)
FlownByBlocked(r) ==
    \E i \in 1..Len(spol.blocked_airlines) :
        EqualIgnoringCase(FirstSegment(r).airline, spol.blocked_airlines[i])
NotFlownByBlocked(r) == ~FlownByBlocked(r)

SegmentsOf(pi) ==
    IF Len(pi.originDestinationOption) = 0 THEN <<>>
    ELSE pi.originDestinationOption[1].items
WithSegments(resp) == {i \in 1..Len(Answered(resp)) : Len(SegmentsOf(Answered(resp)[i])) >= 1}
\* the position in the answer of the k-th itinerary that has segments
NthWithSegments(resp, k) ==
    CHOOSE p \in WithSegments(resp) : Cardinality({q \in WithSegments(resp) : q <= p}) = k

\* The normalized list holds exactly the answer's itineraries with at least
\* one segment, in the answer's order, each with all of its segments.
NormalizedExactly(list, resp) ==
    /\ Len(list) = Cardinality(WithSegments(resp))
    /\ \A k \in 1..Len(list) :
          LET pi == Answered(resp)[NthWithSegments(resp, k)]
          IN  /\ Len(list[k].segments) = Len(SegmentsOf(pi))
              /\ \A n \in 1..Len(SegmentsOf(pi)) :
                    /\ list[k].segments[n].dep = SegmentsOf(pi)[n].departureAirport
                    /\ list[k].segments[n].arr = SegmentsOf(pi)[n].arrivalAirport
                    /\ list[k].segments[n].flight = SegmentsOf(pi)[n].flightNumber
              /\ list[k].amount_raw = _money_amount(pi.totalFare.amount)

ReachedBuilder ==
    /\ Served /\ configured /\ StoreEffective /\ ~ClientInputBad(breq)
    /\ OutboundPi.kind = "dict"

\* The vendor a block holds, and the blocks of the three sources in order:
\* (1) ticketing, (2) top-level ticketingVendor / TicketingVendor,
\* (3) ticketingInfo / TicketingInfo -> ticketingVendor / TicketingVendor.
VendorIn(b) ==
    [companyShortName |-> IF b.companyShortName /= "" THEN b.companyShortName ELSE b.CompanyShortName,
     code |-> IF b.code /= "" THEN b.code ELSE b.Code,
     codeContext |-> IF b.codeContext /= "" THEN b.codeContext ELSE b.CodeContext]
ProvidesVendor(b) ==
    /\ b.dict
    /\ VendorIn(b).companyShortName /= "" /\ VendorIn(b).code /= "" /\ VendorIn(b).codeContext /= ""
VendorSources(pi) ==
    <<pi.ticketing, pi.ticketingVendor, pi.TicketingVendor,
      pi.ticketingInfo.ticketingVendor, pi.ticketingInfo.TicketingVendor,
      pi.TicketingInfo.ticketingVendor, pi.TicketingInfo.TicketingVendor>>
Providing(pi) == {i \in 1..7 : ProvidesVendor(VendorSources(pi)[i])}
FirstProviding(pi) == VendorSources(pi)[CHOOSE i \in Providing(pi) : \A j \in Providing(pi) : i <= j]

RejectedVendorMissing == BuildFor(breq).raised = "ValueError: TicketingVendor not found"
RejectedNoSegments == BuildFor(breq).raised = "ValueError: No outbound segments found"

\* C19: the vendor of a booking is that of the first of the three sources, in
\* order, that provides one (company short name, code and code context); the
\* booking is rejected as VendorMissing only when none of them provides one.
C19_FirstVendorSourceWins ==
    ReachedBuilder =>
        /\ RejectedVendorMissing <=> Providing(OutboundPi) = {}
        /\ airBookCalls >= 1 => airbook_xml.vendor = VendorIn(FirstProviding(OutboundPi))

\* The segments of the outbound leg under each source, in order: the raw
\* airItinerary path, its capitalized variant, the normalized segments list.
DictEntries(q) == SelectSeq(q, IsDictEntry)
FlightNumbers(q) == [i \in 1..Len(q) |-> IF "flightNumber" \in DOMAIN q[i] THEN q[i].flightNumber ELSE q[i].flight]
OutboundSegmentSources(pi) ==
    <<IF pi.airItinerary = <<>> THEN <<>> ELSE FlightNumbers(DictEntries(pi.airItinerary[1])),
      IF pi.AirItinerary = <<>> THEN <<>> ELSE FlightNumbers(DictEntries(pi.AirItinerary[1])),
      IF pi.segments.list THEN FlightNumbers(DictEntries(pi.segments.items)) ELSE <<>> >>
WithOutboundSegments(pi) == {i \in 1..3 : OutboundSegmentSources(pi)[i] /= <<>>}
FirstOutboundSegments(pi) ==
    OutboundSegmentSources(pi)[CHOOSE i \in WithOutboundSegments(pi) : \A j \in WithOutboundSegments(pi) : i <= j]

\* C20: the segments of a leg are those of the first source, in the order
\* raw path, capitalized raw path, normalized list (leg 0 only), that yields
\* a non-empty segment list; there are none only when every source is empty.
C20_FirstSegmentSourceWins ==
    (ReachedBuilder /\ ~RejectedVendorMissing) =>
        /\ RejectedNoSegments <=> WithOutboundSegments(OutboundPi) = {}
        /\ airBookCalls >= 1 =>
              FlightNumbers(airbook_xml.odo[1]) = FirstOutboundSegments(OutboundPi)

(***************************************************************************)
(* Claims about Book: one block per direction                              *)
(***************************************************************************)

ReturnPi == breq.return_itinerary_json.val
Sent == airBookCalls >= 1

\* The legs an itinerary holds under the raw path (either spelling).
RawLegs(pi) == IF pi.airItinerary /= <<>> THEN pi.airItinerary ELSE pi.AirItinerary
\* A combined priced itinerary has two directional options; an independently
\* normalized return itinerary has its segments in the normalized list.
IsCombinedPriced(pi) == Len(RawLegs(pi)) = 2
IsIndependentReturn(pi) == RawLegs(pi) = <<>> /\ pi.segments.list /\ HasDictEntry(pi.segments.items)
ReturnDirection(pi) ==
    IF IsCombinedPriced(pi) THEN FlightNumbers(DictEntries(RawLegs(pi)[2]))
    ELSE FlightNumbers(DictEntries(pi.segments.items))
HasReturnInput ==
    /\ breq.return_itinerary_json.given
    /\ ReturnPi.kind = "dict"
    /\ IsCombinedPriced(ReturnPi) \/ IsIndependentReturn(ReturnPi)

\* C21: the booking XML sent upstream has one OriginDestinationOption block
\* for a one-way booking; for a round-trip booking with a return input it has
\* the outbound block followed by a block holding the return direction of
\* the return input: leg index 0 of an independently normalized itinerary,
\* leg index 1 of a combined priced itinerary with two directional options.
C21_OneBlockPerDirection ==
    Sent =>
        /\ breq.trip_type = "oneway" => Len(airbook_xml.odo) = 1
        /\ (breq.trip_type = "roundtrip" /\ HasReturnInput) =>
              /\ Len(airbook_xml.odo) = 2
              /\ FlightNumbers(airbook_xml.odo[1]) = FirstOutboundSegments(OutboundPi)
              /\ FlightNumbers(airbook_xml.odo[2]) = ReturnDirection(ReturnPi)

(***************************************************************************)
(* Claims about the schedule windows of the status display                 *)
(***************************************************************************)

\* The concrete windows the rules of a schedule imply on the day that lies
\* `offset` days from the day of the instant (-1 is the previous day).
WellFormed(r) == IsClockTime(r.start) /\ IsClockTime(r.end)
ImpliedOn(schedule, at, offset) ==
    {Window(offset * DaySeconds + ClockTime(schedule.rules[i].start),
            (IF ClockTime(schedule.rules[i].end) >= ClockTime(schedule.rules[i].start)
             THEN offset ELSE offset + 1) * DaySeconds + ClockTime(schedule.rules[i].end)) :
       i \in {j \in 1..Len(schedule.rules) :
                /\ WellFormed(schedule.rules[j])
                /\ (at.wd + offset + 7) % 7 \in schedule.rules[j].days}}
ImpliedWindows(schedule, at) == UNION {ImpliedOn(schedule, at, offset) : offset \in -1..7}
Contains(w, t) == w.start <= t /\ t <= w.end
UpcomingWindows(schedule, at, current) ==
    {w \in ImpliedWindows(schedule, at) :
       w.start > at.t /\ (current /= NoWindow => w.start > current.end)}

\* C22: when the instant lies inside a concrete window implied by the rules
\* (an overnight window that started on the previous day included), the
\* status reports a current_window that contains the instant; a reported
\* next_window is the earliest implied window of the scan horizon that starts
\* strictly after the instant and after the end of current_window.
C22_WindowsReported ==
    StatusListed =>
        LET schedule == perm.ticketing_schedule
            current == status_out.schedule.current_window
            next_win == status_out.schedule.next_window
        IN  /\ (\E w \in ImpliedWindows(schedule, now) : Contains(w, now.t)) =>
                  (current /= NoWindow /\ Contains(current, now.t))
            /\ next_win /= NoWindow =>
                  /\ next_win \in UpcomingWindows(schedule, now, current)
                  /\ \A w \in UpcomingWindows(schedule, now, current) : next_win.start <= w.start

(***************************************************************************)
(* Claims about the normalizer: duration                                   *)
(***************************************************************************)

\* The date-time strings that are timestamps.
IsTimestamp(dt) == _parse_dt(dt) /= NoInstant
\* m is the whole number of minutes in a span of s seconds (s >= 0).
WholeMinutes(m, s) == m \in Nat /\ m * 60 <= s /\ s < (m + 1) * 60
DurationRight(r) ==
    LET dep_dt == r.segments[1].dep_dt
        arr_dt == r.segments[Len(r.segments)].arr_dt
        mins == r.summary.duration_mins
    IN  /\ mins >= 0
        /\ IF IsTimestamp(dep_dt) /\ IsTimestamp(arr_dt) /\ _parse_dt(arr_dt) >= _parse_dt(dep_dt)
           THEN WholeMinutes(mins, _parse_dt(arr_dt) - _parse_dt(dep_dt))
           ELSE mins = 0

\* C23: the duration of every normalized itinerary is the whole number of
\* minutes from its first segment's departure to its last segment's arrival,
\* and 0 when the arrival is before the departure or a timestamp does not
\* parse; it is never negative.
C23_DurationWholeMinutesClamped ==
    /\ \A i \in 1..Len(results_out) : DurationRight(results_out[i])
    /\ \A i \in 1..Len(results_return) : DurationRight(results_return[i])

\* A search has returned a positive duration that is not a whole number of
\* minutes, one clamped to 0 and one of an unparseable timestamp.
C23_Witness ==
    /\ \E i \in 1..Len(results_out) :
          /\ results_out[i].summary.duration_mins = 330
          /\ Len(results_out[i].segments) = 2
    /\ \E i \in 1..Len(results_out) :
          /\ ~IsTimestamp(results_out[i].segments[1].dep_dt)
          /\ results_out[i].summary.duration_mins = 0
    /\ \E i \in 1..Len(results_return) :
          /\ IsTimestamp(results_return[i].segments[1].dep_dt)
          /\ _parse_dt(results_return[i].segments[1].arr_dt) < _parse_dt(results_return[i].segments[1].dep_dt)
          /\ IsTimestamp(results_return[i].segments[1].arr_dt)
          /\ results_return[i].summary.duration_mins = 0

(***************************************************************************)
(* Claims about Search: failures and the disabled provider                 *)
(***************************************************************************)

\* The position, among the upstream calls of the request, of the call that
\* raised; 0 when none did.
FailedCall ==
    IF resp_out.kind = "failed" THEN 1
    ELSE IF resp_ret.kind = "failed" THEN 2
    ELSE IF resp_rt.kind = "failed" THEN 3
    ELSE 0
IsErrorResponse(r) == r.http >= 400 /\ r.error /= "" /\ r.results = <<>> /\ r.results_return = <<>>

\* C24: once an upstream search call of a request (outbound, return or
\* combined) has raised, the request is answered with an error response that
\* carries no results, and the failed call is the last upstream call made
\* for the request.
C24_SearchFailurePropagates ==
    FailedCall /= 0 =>
        /\ spc = "done"
        /\ IsErrorResponse(sresp)
        /\ Len(searchCalls) = FailedCall

\* the combined call failed after two answered searches that found flights
C24_Witness ==
    /\ FailedCall = 3
    /\ results_out /= <<>> /\ results_return /= <<>>
    /\ IsErrorResponse(sresp)

\* A Search request made in the current state is answered in one step with
\* the empty disabled result, without an upstream call.
SearchAnsweredDisabled(req) ==
    /\ SearchNext
    /\ sreq' = req
    /\ spc' = "done"
    /\ sresp'.http = 200 /\ sresp'.disabled /\ sresp'.error = ""
    /\ sresp'.results = <<>> /\ sresp'.results_return = <<>>
    /\ searchCalls' = <<>>
SearchAnsweredOtherwise(req) ==
    /\ SearchNext
    /\ sreq' = req
    /\ ~(sresp'.disabled /\ spc' = "done" /\ searchCalls' = <<>>)

\* C25: with the OTA entry missing from the stored permissions, the policy
\* has availability and ticketing_effective false; on a configured gateway
\* every Search request is answered with the empty disabled result and no
\* Book request reaches the upstream.
C25_MissingProviderIsDisabled ==
    ~perm.present =>
        /\ ~_ota_policy(perm, now).availability
        /\ ~_ota_policy(perm, now).ticketing_effective
        /\ configured =>
              /\ \A req \in AvailabilityRequests :
                    /\ ENABLED SearchAnsweredDisabled(req)
                    /\ ~ENABLED SearchAnsweredOtherwise(req)
              /\ airBookCalls = 0
              /\ bpc /= "calling"
              /\ Served => (~bpol.availability /\ ~bpol.ticketing_effective)

\* a Book request was served on a configured gateway with the entry deleted
C25_Witness ==
    /\ ~perm.present /\ configured
    /\ Served /\ breq.passengers >= 1 /\ OutboundPi = PiNormalized
    /\ outcome = DisabledResponse
    /\ airBookCalls = 0

\* The provider's availability, read from the store without _ota_policy.
StoreAvailable ==
    perm.present /\ perm.availability_enabled /\ "OTA" \notin perm.blocked_suppliers

\* C27: while the provider's availability is false, a configured gateway
\* makes no upstream search call (one-way or combined), and a served Search
\* request has the empty outbound result list with the disabled marker.
C27_DisabledSearchMakesNoCall ==
    (configured /\ ~StoreAvailable) =>
        /\ searchCalls = <<>>
        /\ spc \in {"idle", "done"}
        /\ spc = "done" =>
              /\ sresp.http = 200 /\ sresp.disabled /\ sresp.error = ""
              /\ sresp.results = <<>>

\* a round-trip search was served with the availability switch off
C27_Witness ==
    /\ configured /\ perm.present /\ ~perm.availability_enabled
    /\ spc = "done" /\ IsRoundTripWithReturnDate(sreq)
    /\ sresp.disabled /\ searchCalls = <<>>

EnabledWellFormed(schedule) ==
    /\ schedule.enabled
    /\ \A i \in 1..Len(schedule.rules) : WellFormed(schedule.rules[i])

\* C26: for an enabled schedule whose rules are all well formed, the status
\* entry's schedule check is true exactly when its schedule information
\* reports a current window, at every instant.
C26_GateAgreesWithDisplay ==
    (StatusListed /\ EnabledWellFormed(perm.ticketing_schedule)) =>
        (status_out.ticketing_schedule_ok <=> status_out.schedule.current_window /= NoWindow)

(***************************************************************************)
(* Claims about seat estimation: the range of an estimate                  *)
(***************************************************************************)

\* The estimates handed back for requested keys (results without a key get
\* no estimate from the probing loop).
ReturnedEstimates ==
    IF efn = "keys"
    THEN {eret.out[k] : k \in DOMAIN eret.out} \cup {eret.in[k] : k \in DOMAIN eret.in}
    ELSE {eret.outbound[i] : i \in {j \in 1..Len(eret.outbound) : outbound[j] /= ""}}
         \cup {eret.inbound[i] : i \in {j \in 1..Len(eret.inbound) : inbound[j] /= ""}}
CompletedWithoutError == EstimateDone /\ eret.returned /\ ~probeFailed

\* C28 as stated: every estimate returned by an estimation that completed
\* without error lies in baseTotalPax..9.
C28_EstimateWithinBaseAndCap ==
    CompletedWithoutError => \A e \in ReturnedEstimates : BaseTotalPax <= e /\ e <= 9

\* C28, amended: every estimate returned by an estimation that completed
\* without error lies between min(9, baseTotalPax) and 9 inclusive.
C28_EstimateWithinCappedBaseAndCap ==
    CompletedWithoutError =>
        \A e \in ReturnedEstimates : (IF BaseTotalPax >= 9 THEN 9 ELSE BaseTotalPax) <= e /\ e <= 9

\* the loop ran to its end with one key gone at the first probe (estimate =
\* baseTotalPax) and one present throughout (estimate 9)
C28_Witness ==
    /\ ProbedToEnd
    /\ efn = "keys"
    /\ BaseTotalPax = 3
    /\ RequestedOut = {"K1", "K2"}
    /\ eret.out["K1"] = 3
    /\ eret.out["K2"] = 9

(***************************************************************************)
(* C29: a credit-paid ticket queued as pending and completed later         *)
(***************************************************************************)

RECURSIVE SumDebits(_, _, _, _)
SumDebits(log, pending_id, kind, i) ==
    IF i > Len(log) THEN 0
    ELSE (IF log[i].pending_id = pending_id /\ log[i].kind = kind THEN log[i].amount ELSE 0)
         + SumDebits(log, pending_id, kind, i + 1)

\* the request queued under the id was completed through the pending workflow
CompletedPending(pending_id) ==
    \E i \in 1..Len(transactions) :
        /\ transactions[i].pending_id = pending_id
        /\ transactions[i].status = "successful"

\* C29: for a ticket request paid by credit that the backend answered as
\* Pending and that was completed through the pending workflow, the credit
\* balance has been reduced by the booking total exactly once over the whole
\* sequence: the debits made for it add up to the total.
C29_CreditDebitedOnce ==
    \A b \in booked :
        (b.method = "credit" /\ CompletedPending(b.pending_id))
            => SumDebits(ledger, b.pending_id, "credit", 1) = b.total

(***************************************************************************)
(* C30: completing a pending item, once and again                          *)
(***************************************************************************)

\* a step in which the portal handles POST /pending/{id}/complete
CompletionStep ==
    /\ portal_n' = portal_n + 1
    /\ portal_req'.op = "pending_complete"

\* the transactions carrying the pending id
Carrying(txs, pending_id) == {i \in 1..Len(txs) : txs[i].pending_id = pending_id}

\* the item leaves the pending list and the other items stay, in order
RemovedFromPending(pending_id) ==
    /\ pending_id \notin {pending'[i] : i \in 1..Len(pending')}
    /\ Len(pending') = Len(pending) - 1
    /\ \A i, j \in 1..Len(pending') :
           i < j => \E k, l \in 1..Len(pending) :
                        k < l /\ pending[k] = pending'[i] /\ pending[l] = pending'[j]

\* the transaction with the pending id becomes successful, the others stay
Promoted(pending_id) ==
    /\ Len(transactions') = Len(transactions)
    /\ \A i \in 1..Len(transactions) :
           IF i \in Carrying(transactions, pending_id)
           THEN transactions'[i].status = "successful"
           ELSE transactions'[i] = transactions[i]

C30_CompletionStep ==
    CompletionStep =>
        LET pending_id == portal_req'.pending_id
        IN  IF pending_id \in {pending[i] : i \in 1..Len(pending)}
            THEN RemovedFromPending(pending_id) /\ Promoted(pending_id)
            ELSE UNCHANGED <<pending, transactions, credit, cash, ledger>>

\* C30: completing a pending item removes it from the pending list and
\* promotes the transaction with that pending id to successful; completing
\* the same pending id a second time, or an unknown id, changes nothing: no
\* balance is debited, no transaction is modified and the pending list is
\* unchanged.
C30_CompleteOnceThenNothing == [][C30_CompletionStep]_vars

\* an id completed a second time: its transaction was promoted by an earlier
\* completion, and the completion handled last did not find the id
C30_Witness ==
    /\ portal_req.op = "pending_complete"
    /\ ~portal_resp.found
    /\ Carrying(transactions, portal_req.pending_id) /= {}
    /\ \A i \in Carrying(transactions, portal_req.pending_id) :
           transactions[i].status = "successful" /\ transactions[i].price > 0

====
